---- MODULE Spec2Model ----
(***************************************************************************)
(* SWAT-Copilot: project discovery, file classification, project loading   *)
(* and headerless table reading, modelled from                              *)
(*   src/src/swat_copilot/core/projects.py                                  *)
(*   src/src/swat_copilot/io/swat_project.py, io/readers.py                 *)
(*   src/src/swat_copilot/services/project_manager.py, services/summary.py  *)
(* The file system the program reads is part of the state: it is changed   *)
(* by environment steps and read by the program's operations.              *)
(***************************************************************************)
EXTENDS Integers, Sequences, FiniteSets, TLC

VARIABLES fs, current_project, ret, text, tab, outdata

vars == <<fs, current_project, ret, text, tab, outdata>>

(* ------------------------------ bounds -------------------------------- *)

\* number of entries below the working directory
MaxEntries == 3
\* levels of nesting below the working directory
MaxTreeDepth == 3
\* largest max_depth handed to find_swat_projects (smallest is -1)
MaxSearchDepth == 2
\* number of entries below the working directory while a project manager runs
MaxMgrEntries == 2
\* number of entries below the working directory around two sibling projects
MaxOrderEntries == 5
\* number of entries below the working directory when subbasins are read
MaxSubEntries == 3
\* characters in the subbasin table
MaxSubText == 3
\* characters in a table file
MaxText == 5
\* largest len(names) handed to read_space_table
MaxNames == 2

(* --------------------------- pathlib paths ---------------------------- *)

\* The process's working directory (absolute, as path segments below "/").
Cwd == <<"w">>

\* Entry names that the environment creates as directories / as files.
DirNames == {"a", "file.cio", "1.sub"}
FileNames == {"file.cio", "xfile.cio", "w.Master.Watershed.dat",
              "output.sub", "1.sub", "w.pcp"}
\* The reach output file, whose content the analysis reads.
OutputRch == "output.rch"
\* The subbasin table and the subbasin files read_sub looks for.
TablesOut == "TablesOut"
SubTxt == "sub.txt"
SubFileNames == {"10.sub", "2.sub", "output.sub"}
Names == DirNames \cup FileNames \cup {OutputRch} \cup {TablesOut, SubTxt} \cup SubFileNames

\* Position of a name in ascending (bytewise) string order.
NameRank == [n \in Names |->
    CASE n = "1.sub" -> 1
      [] n = "10.sub" -> 2
      [] n = "2.sub" -> 3
      [] n = "TablesOut" -> 4
      [] n = "a" -> 5
      [] n = "file.cio" -> 6
      [] n = "output.rch" -> 7
      [] n = "output.sub" -> 8
      [] n = "sub.txt" -> 9
      [] n = "w.Master.Watershed.dat" -> 10
      [] n = "w.pcp" -> 11
      [] n = "xfile.cio" -> 12]

\* os.scandir order is unspecified: the orders a directory listing is taken in.
DirOrders == {"asc", "desc"}
OrderRank(o) == [n \in Names |-> IF o = "asc" THEN NameRank[n] ELSE 0 - NameRank[n]]

\* A pathlib.Path: absolute or relative, with its segments ("." segments are
\* dropped by pathlib, ".." segments are kept).
AbsPath(parts) == [abs |-> TRUE, parts |-> parts]
RelPath(parts) == [abs |-> FALSE, parts |-> parts]

\* path / name
Child(p, n) == [abs |-> p.abs, parts |-> Append(p.parts, n)]

\* Path.name: the final segment, "" when there is none
PathName(p) == IF p.parts = <<>> THEN "" ELSE p.parts[Len(p.parts)]

Parent(at) == IF at = <<>> THEN <<>> ELSE SubSeq(at, 1, Len(at) - 1)

\* The operating system's walk of a path: every segment but the last must be
\* reached through a directory; ".." steps to the parent.
RECURSIVE Walk(_, _, _)
Walk(f, at, parts) ==
    IF parts = <<>> THEN [ok |-> at \in DOMAIN f, at |-> at]
    ELSE IF ~(at \in DOMAIN f /\ f[at] = "dir") THEN [ok |-> FALSE, at |-> at]
    ELSE Walk(f, IF Head(parts) = ".." THEN Parent(at) ELSE Append(at, Head(parts)),
              Tail(parts))

Stat(f, p) == Walk(f, IF p.abs THEN <<>> ELSE Cwd, p.parts)

\* Path.exists / Path.is_dir / Path.is_file
exists(f, p) == Stat(f, p).ok
is_dir(f, p) == LET s == Stat(f, p) IN s.ok /\ f[s.at] = "dir"
is_file(f, p) == LET s == Stat(f, p) IN s.ok /\ f[s.at] = "file"

\* Path.resolve(): absolute, ".." folded away (the model has no symlinks)
RECURSIVE Fold(_, _)
Fold(at, parts) ==
    IF parts = <<>> THEN at
    ELSE Fold(IF Head(parts) = ".." THEN Parent(at) ELSE Append(at, Head(parts)),
              Tail(parts))
resolve(p) == AbsPath(Fold(IF p.abs THEN <<>> ELSE Cwd, p.parts))

\* the names directly inside the directory a path leads to
EntryNames(f, p) ==
    LET s == Stat(f, p)
    IN {n \in Names : Append(s.at, n) \in DOMAIN f}

\* a set of names as the sequence a directory listing yields it in
RECURSIVE Listing(_, _)
Listing(S, rank) ==
    IF S = {} THEN <<>>
    ELSE LET m == CHOOSE x \in S : \A y \in S : rank[x] <= rank[y]
         IN <<m>> \o Listing(S \ {m}, rank)

\* fnmatch of one path segment: the patterns in use are literal names or
\* "*" followed by a literal suffix
IsWild(pat) == Len(pat) > 0 /\ SubSeq(pat, 1, 1) = "*"
fnmatch(name, pat) ==
    IF IsWild(pat)
    THEN LET suf == SubSeq(pat, 2, Len(pat))
         IN Len(name) >= Len(suf)
            /\ SubSeq(name, Len(name) - Len(suf) + 1, Len(name)) = suf
    ELSE name = pat

\* Path.glob(pattern) for a one-segment pattern: nothing unless the path is a
\* directory; a literal pattern selects the child of that name if it exists; a
\* wildcard pattern selects the matching entries in listing order.
glob(f, p, pat, o) ==
    IF ~is_dir(f, p) THEN <<>>
    ELSE IF ~IsWild(pat)
         THEN IF exists(f, Child(p, pat)) THEN <<Child(p, pat)>> ELSE <<>>
         ELSE LET hit == {n \in EntryNames(f, p) : fnmatch(n, pat)}
                  lst == Listing(hit, OrderRank(o))
              IN [i \in 1..Len(lst) |-> Child(p, lst[i])]

(* ----------------------- core/projects.py ----------------------------- *)

\* an indicator list with a glob where the control file's name belongs
IndicatorsAnyCio == <<"*.cio", "*.Master.Watershed.dat">>

Indicators == <<"file.cio", "*.Master.Watershed.dat">>

is_swat_project(f, p, o) ==
    /\ is_dir(f, p)
    /\ \E i \in 1..Len(Indicators) : glob(f, p, Indicators[i], o) # <<>>

\* Path.iterdir() filtered by child.is_dir()
ChildDirs(f, p, o) ==
    LET lst == Listing(EntryNames(f, p), OrderRank(o))
        kids == [i \in 1..Len(lst) |-> Child(p, lst[i])]
    IN SelectSeq(kids, LAMBDA c : is_dir(f, c))

RECURSIVE search(_, _, _, _, _)
RECURSIVE searchEach(_, _, _, _, _)
search(f, current_path, depth, max_depth, o) ==
    IF depth > max_depth THEN <<>>
    ELSE IF is_swat_project(f, current_path, o) THEN <<current_path>>
    ELSE IF is_dir(f, current_path)
         THEN searchEach(f, ChildDirs(f, current_path, o), depth + 1, max_depth, o)
         ELSE <<>>
searchEach(f, kids, depth, max_depth, o) ==
    IF kids = <<>> THEN <<>>
    ELSE search(f, Head(kids), depth, max_depth, o)
         \o searchEach(f, Tail(kids), depth, max_depth, o)

\* a search that goes on below a project root
RECURSIVE searchBelow(_, _, _, _, _)
RECURSIVE searchBelowEach(_, _, _, _, _)
searchBelow(f, current_path, depth, max_depth, o) ==
    IF depth > max_depth THEN <<>>
    ELSE (IF is_swat_project(f, current_path, o) THEN <<current_path>> ELSE <<>>)
         \o (IF is_dir(f, current_path)
             THEN searchBelowEach(f, ChildDirs(f, current_path, o), depth + 1, max_depth, o)
             ELSE <<>>)
searchBelowEach(f, kids, depth, max_depth, o) ==
    IF kids = <<>> THEN <<>>
    ELSE searchBelow(f, Head(kids), depth, max_depth, o)
         \o searchBelowEach(f, Tail(kids), depth, max_depth, o)
find_swat_projects_nested(f, root_path, max_depth, o) ==
    searchBelow(f, root_path, 0, max_depth, o)

\* a search that falls back to the root it was given when it finds nothing
find_swat_projects_or_root(f, root_path, max_depth, o) ==
    IF search(f, root_path, 0, max_depth, o) = <<>> THEN <<root_path>>
    ELSE search(f, root_path, 0, max_depth, o)

\* a search whose depth count starts one level late
find_swat_projects_late(f, root_path, max_depth, o) == search(f, root_path, 0 - 1, max_depth, o)

find_swat_projects(f, root_path, max_depth, o) == search(f, root_path, 0, max_depth, o)

\* SWATFileType values, in declaration order
FileTypes == <<"master_watershed", "control", "subbasin", "hru", "routing", "weather",
               "soil", "management", "groundwater", "reservoir", "pond",
               "output_std", "output_rch", "output_sub", "output_hru", "output_rsv",
               "config", "unknown">>

\* the pattern table of scan_project_files, in its declared order
Patterns == <<
    [type |-> "control",          pats |-> <<"file.cio">>],
    [type |-> "master_watershed", pats |-> <<"*.Master.Watershed.dat">>],
    [type |-> "subbasin",         pats |-> <<"*.sub">>],
    [type |-> "hru",              pats |-> <<"*.hru">>],
    [type |-> "routing",          pats |-> <<"*.rte">>],
    [type |-> "soil",             pats |-> <<"*.sol">>],
    [type |-> "management",       pats |-> <<"*.mgt">>],
    [type |-> "groundwater",      pats |-> <<"*.gw">>],
    [type |-> "reservoir",        pats |-> <<"*.res">>],
    [type |-> "pond",             pats |-> <<"*.pnd">>],
    [type |-> "weather",          pats |-> <<"*.pcp", "*.tmp", "*.slr", "*.hmd", "*.wnd">>],
    [type |-> "output_std",       pats |-> <<"output.std">>],
    [type |-> "output_rch",       pats |-> <<"output.rch">>],
    [type |-> "output_sub",       pats |-> <<"output.sub">>],
    [type |-> "output_hru",       pats |-> <<"output.hru">>],
    [type |-> "output_rsv",       pats |-> <<"output.rsv">>] >>

PatternTypes == {Patterns[i].type : i \in 1..Len(Patterns)}
PatternsOf(t) == Patterns[CHOOSE i \in 1..Len(Patterns) : Patterns[i].type = t].pats

\* a SWATFile
SWATFile(path, file_type) == [path |-> path, file_type |-> file_type]

\* the loops without the is_file test
RECURSIVE ScanPatternsAnyEntry(_, _, _, _, _)
ScanPatternsAnyEntry(f, p, t, pats, o) ==
    IF pats = <<>> THEN <<>>
    ELSE LET hits == glob(f, p, Head(pats), o)
         IN [i \in 1..Len(hits) |-> SWATFile(hits[i], t)]
            \o ScanPatternsAnyEntry(f, p, t, Tail(pats), o)

\* the inner two loops of scan_project_files for one file type: every pattern
\* in turn, every glob hit that is a regular file
RECURSIVE ScanPatterns(_, _, _, _, _)
ScanPatterns(f, p, t, pats, o) ==
    IF pats = <<>> THEN <<>>
    ELSE LET hits == SelectSeq(glob(f, p, Head(pats), o), LAMBDA c : is_file(f, c))
         IN [i \in 1..Len(hits) |-> SWATFile(hits[i], t)]
            \o ScanPatterns(f, p, t, Tail(pats), o)

\* a files dict without keys
EmptyFiles == [t \in {} |-> <<>>]

scan_project_files(f, project_path, o) ==
    IF ~is_dir(f, project_path) THEN EmptyFiles
    ELSE LET found == [t \in PatternTypes |->
                          ScanPatterns(f, project_path, t, PatternsOf(t), o)]
         IN [t \in {u \in PatternTypes : found[u] # <<>>} |-> found[t]]

\* dict.get(key, [])
FilesGet(files, t) == IF t \in DOMAIN files THEN files[t] ELSE <<>>

RECURSIVE FilesOfTypes(_, _)
FilesOfTypes(files, types) ==
    IF types = <<>> THEN <<>>
    ELSE FilesGet(files, Head(types)) \o FilesOfTypes(files, Tail(types))

InputTypes == <<"master_watershed", "control", "subbasin", "hru", "routing", "weather",
                "soil", "management", "groundwater", "reservoir", "pond">>
\* an output list naming the input types SUBBASIN and HRU for OUTPUT_SUB and OUTPUT_HRU
OutputTypesMixed == <<"output_std", "output_rch", "subbasin", "hru", "output_rsv">>
OutputTypes == <<"output_std", "output_rch", "output_sub", "output_hru", "output_rsv">>

input_files(project) == FilesOfTypes(project.files, InputTypes)
output_files(project) == FilesOfTypes(project.files, OutputTypes)
has_outputs(project) == Len(output_files(project)) > 0

\* SWATProject.get_file(file_type, index = 0): the SWATFile, or <<>> for None
get_file(project, t) ==
    LET files == FilesGet(project.files, t)
    IN IF 0 < Len(files) THEN <<files[1]>> ELSE <<>>

\* results of a call: a value, or the exception it raised
Ok(v) == [status |-> "ok", val |-> v]
Raised(e) == [status |-> e]

\* the dataclass without its __post_init__ check
CoreSWATProjectUnchecked(f, project_path, name, files) ==
    Ok([project_path |-> project_path, name |-> name, files |-> files])

\* the dataclass SWATProject with its __post_init__
CoreSWATProject(f, project_path, name, files) ==
    IF ~exists(f, project_path) THEN Raised("ValueError")
    ELSE Ok([project_path |-> project_path, name |-> name, files |-> files])

\* io.swat_project.SWATProject.__init__
IoSWATProject(f, root) ==
    IF ~exists(f, resolve(root)) THEN Raised("FileNotFoundError")
    ELSE Ok([root |-> resolve(root)])

\* the "project" entry of io SWATProject.summary()
IoProjectName(project) == PathName(project.root)

(* ------------------- services/project_manager.py ---------------------- *)

\* a load that skips the is_swat_project test
load_project_unvalidated(f, project_path, o) ==
    CoreSWATProject(f, project_path, PathName(project_path),
                    scan_project_files(f, project_path, o))

load_project(f, project_path, o) ==
    IF ~is_swat_project(f, project_path, o) THEN Raised("ValueError")
    ELSE CoreSWATProject(f, project_path, PathName(project_path),
                         scan_project_files(f, project_path, o))

\* Settings.default_swat_project_path: <<>> for None, else <<path>>
default_swat_project_path == <<>>

\* find_projects(search_path, max_depth), search_path <<>> for None
find_projects(f, search_path, max_depth, o) ==
    LET start == IF search_path # <<>> THEN search_path[1]
                 ELSE IF default_swat_project_path # <<>> THEN default_swat_project_path[1]
                 ELSE AbsPath(Cwd)
    IN find_swat_projects(f, start, max_depth, o)

\* a validation that asks for file.cio alone
validate_project_control_only(f, project_path, o) ==
    LET results == [is_valid |-> FALSE, path |-> project_path,
                    errors |-> <<>>, warnings |-> <<>>]
    IN IF ~exists(f, project_path)
       THEN [results EXCEPT !.errors = <<"Path does not exist">>]
       ELSE IF ~is_dir(f, project_path)
       THEN [results EXCEPT !.errors = <<"Path is not a directory">>]
       ELSE IF glob(f, project_path, "file.cio", o) = <<>>
       THEN [results EXCEPT !.errors = <<"Missing required SWAT files (file.cio)">>]
       ELSE [results EXCEPT !.is_valid = TRUE]

\* validate_project(project_path): the results dict; path is the spelling given
validate_project(f, project_path, o) ==
    LET results == [is_valid |-> FALSE, path |-> project_path,
                    errors |-> <<>>, warnings |-> <<>>]
    IN IF ~exists(f, project_path)
       THEN [results EXCEPT !.errors = <<"Path does not exist">>]
       ELSE IF ~is_dir(f, project_path)
       THEN [results EXCEPT !.errors = <<"Path is not a directory">>]
       ELSE IF ~is_swat_project(f, project_path, o)
       THEN [results EXCEPT !.errors = <<"Missing required SWAT files (file.cio)">>]
       ELSE IF glob(f, project_path, "output.*", o) = <<>>
       THEN [results EXCEPT !.is_valid = TRUE,
                            !.warnings = <<"No output files found - project may not have been run">>]
       ELSE [results EXCEPT !.is_valid = TRUE]

\* get_project_info(project_path): file_count and has_outputs are entered only
\* for a path that exists
get_project_info(f, project_path, o) ==
    LET info == [path |-> project_path, name |-> PathName(project_path),
                 exists |-> exists(f, project_path), is_valid |-> FALSE]
        files == scan_project_files(f, project_path, o)
    IN IF exists(f, project_path)
       THEN [path |-> info.path, name |-> info.name, exists |-> TRUE,
             is_valid |-> is_swat_project(f, project_path, o),
             file_count |-> Cardinality(UNION {{<<t, i>> : i \in 1..Len(files[t])} :
                                                 t \in DOMAIN files}),
             has_outputs |-> \E t \in DOMAIN files :
                                 /\ files[t] # <<>>
                                 /\ Len(t) >= 7 /\ SubSeq(t, 1, 7) = "output_"]
       ELSE info

(* ----------------------- services/summary.py -------------------------- *)

\* st_size of what the environment creates: a file's size goes with its name,
\* a directory takes one block
StSize == [n \in Names |->
    CASE n = "file.cio" -> 131072
      [] n = "xfile.cio" -> 7
      [] n = "w.Master.Watershed.dat" -> 5243
      [] n = "output.sub" -> 1048576
      [] n = "output.rch" -> 2097152
      [] n = "1.sub" -> 393216
      [] n = "w.pcp" -> 5242
      [] n = "10.sub" -> 393216
      [] n = "2.sub" -> 393216
      [] n = "sub.txt" -> 64
      [] n \in {"a", "TablesOut"} -> 0]
BlockSize == [k \in {"dir"} |-> 4096]

\* a size remembered from the scan, whether or not the path still exists
FileSizeAtScan(f, file) == StSize[PathName(file.path)]

\* SWATFile.size: path.stat().st_size if the path exists, else 0
FileSize(f, file) ==
    LET s == Stat(f, file.path)
    IN IF ~s.ok THEN 0
       ELSE IF f[s.at] = "dir" THEN BlockSize["dir"]
       ELSE StSize[s.at[Len(s.at)]]

RECURSIVE SumSizes(_, _)
SumSizes(f, files) ==
    IF files = <<>> THEN 0 ELSE FileSize(f, Head(files)) + SumSizes(f, Tail(files))

RECURSIVE SumBuckets(_, _, _)
SumBuckets(f, files, types) ==
    IF types = {} THEN 0
    ELSE LET t == CHOOSE u \in types : TRUE
         IN SumSizes(f, files[t]) + SumBuckets(f, files, types \ {t})

BytesPerMB == 1024 * 1024

\* round(total_bytes / (1024 * 1024), 2), in hundredths of a megabyte: the
\* quotient is exact in binary floating point and round() takes exact ties to even
RoundMB(total_bytes) ==
    LET q == (total_bytes * 100) \div BytesPerMB
        r == (total_bytes * 100) % BytesPerMB
    IN IF 2 * r > BytesPerMB \/ (2 * r = BytesPerMB /\ q % 2 = 1) THEN q + 1 ELSE q

calculate_project_size(f, project) ==
    RoundMB(SumBuckets(f, project.files, DOMAIN project.files))

count_files_by_type(project) ==
    [t \in {u \in DOMAIN project.files : project.files[u] # <<>>} |->
        Len(project.files[t])]

\* the control_params step: the control file's path when a control file is
\* filed and can be opened and read, <<>> when the entry is left out
control_params(f, project) ==
    LET control_file == get_file(project, "control")
    IN IF control_file # <<>> /\ is_file(f, control_file[1].path)
       THEN <<control_file[1].path>> ELSE <<>>

get_project_summary(f, project) ==
    [name |-> project.name,
     path |-> project.project_path,
     file_counts |-> count_files_by_type(project),
     has_outputs |-> has_outputs(project),
     size_mb |-> calculate_project_size(f, project),
     control_params |-> control_params(f, project)]

(* ----------------------- data_access/readers.py ---------------------- *)

\* OutputReader's default skip_lines
SkipLines == 9

\* A file's lines as whitespace-separated fields.  outdata holds the reach
\* output file: pre title lines, then lines (a header of column names and
\* rows of integers).  Every other file holds no lines.
TitleLine == <<"SWAT">>
FileLines(f, d, p) ==
    LET s == Stat(f, p)
    IN IF s.ok /\ s.at = Append(Cwd, OutputRch) /\ f[s.at] = "file"
       THEN [i \in 1..d.pre |-> TitleLine] \o d.lines
       ELSE <<>>

\* a pandas DataFrame: column names and rows in file order
DataFrame(columns, rows) == [columns |-> columns, rows |-> rows]
EmptyFrame == DataFrame(<<>>, <<>>)

\* skiprows=skip: the lines after the first skip
SkipRows(all, skip) == SubSeq(all, skip + 1, Len(all))

\* the parse of the lines left: nothing left has no columns to parse; the
\* first line is the header and lines with more fields than the header are
\* skipped (lines with fewer fields do not occur in the contents modelled)
ParseLines(rest) ==
    IF rest = <<>> THEN Raised("EmptyDataError")
    ELSE Ok(DataFrame(Head(rest),
                      SelectSeq(Tail(rest), LAMBDA r : Len(r) = Len(Head(rest)))))

\* pd.read_csv(path, sep=r"\s+", skiprows=skip, engine="python",
\* on_bad_lines="skip"): a directory cannot be opened
read_csv(f, d, p, skip) ==
    IF is_dir(f, p) THEN Raised("IsADirectoryError")
    ELSE IF ~exists(f, p) THEN Raised("FileNotFoundError")
    ELSE ParseLines(SkipRows(FileLines(f, d, p), skip))

\* a reader that lets the parser's exception through
read_to_dataframe_unguarded(f, d, p) == read_csv(f, d, p, SkipLines)

\* except Exception: return pd.DataFrame()
OrEmptyFrame(r) == IF r.status = "ok" THEN r ELSE Ok(EmptyFrame)

\* OutputReader._read_to_dataframe: any exception gives an empty DataFrame
read_to_dataframe(f, d, p) == OrEmptyFrame(read_csv(f, d, p, SkipLines))

\* the class OutputReader.read wraps the DataFrame in
OutputClass(output_type) ==
    CASE output_type = "reach" -> "ReachOutput"
      [] output_type = "subbasin" -> "SubbasinOutput"
      [] output_type = "hru" -> "HRUOutput"
      [] OTHER -> "OutputData"

\* data_access/schemas.py: OutputData and its subclasses
OutputData(class, data, file_path) ==
    [class |-> class, data |-> data, file_path |-> file_path]

\* OutputData.variables
variables(data) == data.data.columns

\* OutputReader.read's class dispatch on the DataFrame it was given
Wrapped(df, output_type, file_path) ==
    IF df.status # "ok" THEN df
    ELSE Ok(OutputData(OutputClass(output_type), df.val, file_path))

\* a reader that hands out again the data set of an earlier read the caller
\* still holds
OutputReader_read_cached(f, d, file_path, output_type) ==
    IF /\ tab # <<>>
       /\ tab[1].call.op = "OutputReader.read"
       /\ tab[1].call.output_type = output_type
    THEN tab[1].call.out
    ELSE IF ~exists(f, file_path) THEN Raised("FileNotFoundError")
    ELSE Wrapped(read_to_dataframe(f, d, file_path), output_type, file_path)

\* OutputReader(file_path, output_type).read()
OutputReader_read(f, d, file_path, output_type) ==
    IF ~exists(f, file_path) THEN Raised("FileNotFoundError")
    ELSE Wrapped(read_to_dataframe(f, d, file_path), output_type, file_path)

(* ------------------------ services/analysis.py ------------------------ *)

\* Optional values: <<>> for None, <<v>> for a value
None == <<>>
Some(v) == <<v>>

\* AnalysisService._get_output_data: None for an unknown output type, for a
\* project without such a file and when the reader raises
FileTypeMap(output_type) ==
    CASE output_type = "reach" -> Some("output_rch")
      [] output_type = "subbasin" -> Some("output_sub")
      [] output_type = "hru" -> Some("output_hru")
      [] OTHER -> None

\* _get_output_data's try/except around the read: the data set, or None
OrNone(r) == IF r.status = "ok" THEN Some(r.val) ELSE None

\* a lookup that scans the project directory again instead of using the
\* project's file buckets
get_output_data_rescanning(f, d, project, output_type) ==
    LET file_type == FileTypeMap(output_type)
        files == scan_project_files(f, project.project_path, "asc")
    IN IF file_type = None THEN None
       ELSE IF FilesGet(files, file_type[1]) = <<>> THEN None
            ELSE OrNone(OutputReader_read(f, d, files[file_type[1]][1].path,
                                          output_type))

get_output_data(f, d, project, output_type) ==
    LET file_type == FileTypeMap(output_type)
    IN IF file_type = None THEN None
       ELSE LET output_file == get_file(project, file_type[1])
            IN IF output_file = <<>> THEN None
               ELSE OrNone(OutputReader_read(f, d, output_file[1].path, output_type))

\* AnalysisService._get_id_column
get_id_column(output_type) ==
    CASE output_type = "reach" -> Some("RCH")
      [] output_type = "subbasin" -> Some("SUB")
      [] output_type = "hru" -> Some("HRU")
      [] OTHER -> None

Contains(seq, x) == \E i \in 1..Len(seq) : seq[i] = x
IndexOf(seq, x) == CHOOSE i \in 1..Len(seq) : seq[i] = x

\* df[name]: the values of one column, in row order
Column(df, name) ==
    [r \in 1..Len(df.rows) |-> df.rows[r][IndexOf(df.columns, name)]]

\* df[df[id_col] == spatial_id]
FilterRows(df, id_col, spatial_id) ==
    DataFrame(df.columns,
              SelectSeq(df.rows,
                        LAMBDA r : r[IndexOf(df.columns, id_col)] = spatial_id))

\* a selection that returns every column
ProjectAll(df, cols) == df

\* df[cols]: the named columns, in the order named
Project(df, cols) ==
    DataFrame(cols,
              [r \in 1..Len(df.rows) |->
                  [c \in 1..Len(cols) |-> df.rows[r][IndexOf(df.columns, cols[c])]]])

\* A float is kept as a ratio of integers; 0/0 is NaN.
Ratio(num, den) == [num |-> num, den |-> den]
NaN == Ratio(0, 0)

RECURSIVE SeqSum(_)
SeqSum(s) == IF s = <<>> THEN 0 ELSE Head(s) + SeqSum(Tail(s))

RECURSIVE SumSquares(_)
SumSquares(s) == IF s = <<>> THEN 0 ELSE Head(s) * Head(s) + SumSquares(Tail(s))

RECURSIVE Insert(_, _)
Insert(x, s) ==
    IF s = <<>> THEN <<x>>
    ELSE IF x <= Head(s) THEN <<x>> \o s
    ELSE <<Head(s)>> \o Insert(x, Tail(s))

RECURSIVE Sorted(_)
Sorted(s) == IF s = <<>> THEN <<>> ELSE Insert(Head(s), Sorted(Tail(s)))

\* Series.quantile(k/4), linear interpolation between the two nearest ranks
Quantile(s, k) ==
    IF s = <<>> THEN NaN
    ELSE LET srt == Sorted(s)
             pos == (Len(s) - 1) * k
             i == (pos \div 4) + 1
             fr == pos % 4
         IN IF fr = 0 THEN Ratio(4 * srt[i], 4)
            ELSE Ratio(4 * srt[i] + fr * (srt[i + 1] - srt[i]), 4)

\* a mean taken with integer division
MeanFloor(s) == IF s = <<>> THEN NaN ELSE Ratio(SeqSum(s) \div Len(s), 1)

\* Series.mean()
Mean(s) == Ratio(SeqSum(s), Len(s))

\* Series.std() squared: the sample variance, NaN for fewer than two values
Variance(s) ==
    IF Len(s) < 2 THEN NaN
    ELSE Ratio(Len(s) * SumSquares(s) - SeqSum(s) * SeqSum(s), Len(s) * (Len(s) - 1))

\* Series.min(), Series.max()
Min(s) == IF s = <<>> THEN NaN ELSE Ratio(Sorted(s)[1], 1)
Max(s) == IF s = <<>> THEN NaN ELSE Ratio(Sorted(s)[Len(s)], 1)

\* the dict get_variable_statistics returns for a series (std is given by its
\* square)
Statistics(variable, series) ==
    [variable |-> variable,
     count |-> Len(series),
     mean |-> Mean(series),
     std |-> [squared |-> Variance(series)],
     min |-> Min(series),
     max |-> Max(series),
     median |-> Quantile(series, 2),
     q25 |-> Quantile(series, 1),
     q75 |-> Quantile(series, 3)]

\* a filter that keeps its result when no row matches
StatisticsRowsStrict(df, output_type, spatial_id) ==
    LET id_col == get_id_column(output_type)
    IN IF spatial_id # None /\ id_col # None /\ Contains(df.columns, id_col[1])
       THEN FilterRows(df, id_col[1], spatial_id[1])
       ELSE df

\* the rows the statistics are taken over: those of spatial_id when it is
\* given, the ID column exists and some row matches, every row otherwise
StatisticsRows(df, output_type, spatial_id) ==
    LET id_col == get_id_column(output_type)
    IN IF spatial_id # None /\ id_col # None /\ Contains(df.columns, id_col[1])
       THEN LET filtered == FilterRows(df, id_col[1], spatial_id[1])
            IN IF filtered.rows # <<>> THEN filtered ELSE df
       ELSE df

\* OutputData.get_column: None when there is no such column
get_column(data, column_name) ==
    IF Contains(data.data.columns, column_name)
    THEN Some(Column(data.data, column_name)) ELSE None

\* the body of get_variable_statistics once the data set is there
StatisticsOf(data, variable, output_type, spatial_id) ==
    IF get_column(data, variable) = None
    THEN [error |-> "Could not extract " \o variable]
    ELSE Statistics(variable,
                    Column(StatisticsRows(data.data, output_type, spatial_id),
                           variable))

\* a lookup that tests only whether the data set is there
get_variable_statistics_unchecked(f, d, project, variable, output_type, spatial_id) ==
    LET data == get_output_data(f, d, project, output_type)
    IN IF data = None
       THEN [error |-> "Variable " \o variable \o " not found"]
       ELSE StatisticsOf(data[1], variable, output_type, spatial_id)

\* AnalysisService.get_variable_statistics
get_variable_statistics(f, d, project, variable, output_type, spatial_id) ==
    LET data == get_output_data(f, d, project, output_type)
    IN IF data = None \/ ~Contains(variables(data[1]), variable)
       THEN [error |-> "Variable " \o variable \o " not found"]
       ELSE StatisticsOf(data[1], variable, output_type, spatial_id)

\* DataFrame.empty: no rows or no columns
IsEmpty(df) == df.rows = <<>> \/ df.columns = <<>>

\* a filter that falls back to every row when no row matches
TimeSeriesRowsFallBack(df, output_type, spatial_id) ==
    StatisticsRows(df, output_type, spatial_id)

\* the rows a time series is taken from
TimeSeriesRows(df, output_type, spatial_id) ==
    LET id_col == get_id_column(output_type)
    IN IF spatial_id # None /\ id_col # None /\ Contains(df.columns, id_col[1])
       THEN FilterRows(df, id_col[1], spatial_id[1])
       ELSE df

\* AnalysisService.get_time_series: None, or the time columns and the variable
get_time_series(f, d, project, variable, output_type, spatial_id) ==
    LET data == get_output_data(f, d, project, output_type)
    IN IF data = None \/ ~Contains(variables(data[1]), variable) THEN None
       ELSE LET df == TimeSeriesRows(data[1].data, output_type, spatial_id)
                time_cols == IF Contains(df.columns, "DAY")
                             THEN <<"MON", "YEAR", "DAY">> ELSE <<"MON", "YEAR">>
                result_cols == Append(time_cols, variable)
                available_cols == SelectSeq(result_cols,
                                            LAMBDA c : Contains(df.columns, c))
            IN IF IsEmpty(df) THEN None
               ELSE IF available_cols = <<>> THEN None
               ELSE Some(Project(df, available_cols))

\* calculate_water_balance's var_mapping, in declared order
VarMapping ==
    <<[component |-> "precipitation",      names |-> <<"PRECIP", "PRECIPmm">>],
      [component |-> "surface_runoff",     names |-> <<"SURQ", "SURQmm">>],
      [component |-> "lateral_flow",       names |-> <<"LATQ", "LATQmm">>],
      [component |-> "groundwater",        names |-> <<"GW_Q", "GWQmm">>],
      [component |-> "evapotranspiration", names |-> <<"ET", "ETmm">>],
      [component |-> "percolation",        names |-> <<"PERC", "PERCmm">>]>>

\* the inner loop without its break: the last name present wins
RECURSIVE LastPresent(_, _)
LastPresent(names, columns) ==
    IF names = <<>> THEN None
    ELSE IF Contains(columns, names[Len(names)]) THEN Some(names[Len(names)])
    ELSE LastPresent(SubSeq(names, 1, Len(names) - 1), columns)

\* the inner loop: the first of the possible names that is a column
RECURSIVE FirstPresent(_, _)
FirstPresent(names, columns) ==
    IF names = <<>> THEN None
    ELSE IF Contains(columns, Head(names)) THEN Some(Head(names))
    ELSE FirstPresent(Tail(names), columns)

\* a balance that drops every key that is not a component
calculate_water_balance_components_only(f, d, project, output_type) ==
    LET data == get_output_data(f, d, project, output_type)
    IN IF data = None THEN <<>>
       ELSE LET df == data[1].data
                chosen(i) == FirstPresent(VarMapping[i].names, df.columns)
                present == {i \in 1..Len(VarMapping) : chosen(i) # None}
            IN [c \in {VarMapping[i].component : i \in present} |->
                   LET i == CHOOSE j \in present : VarMapping[j].component = c
                   IN SeqSum(Column(df, chosen(i)[1]))]

\* AnalysisService.calculate_water_balance: an error dict, or the sum of the
\* chosen column for every component that has one
calculate_water_balance(f, d, project, output_type) ==
    LET data == get_output_data(f, d, project, output_type)
    IN IF data = None THEN [error |-> "No output data available"]
       ELSE LET df == data[1].data
                chosen(i) == FirstPresent(VarMapping[i].names, df.columns)
                present == {i \in 1..Len(VarMapping) : chosen(i) # None}
            IN [c \in {VarMapping[i].component : i \in present} |->
                   LET i == CHOOSE j \in present : VarMapping[j].component = c
                   IN SeqSum(Column(df, chosen(i)[1]))]

(* ----------------------- services/summary.py -------------------------- *)

\* get_output_summary: one entry per filed reach, subbasin and hru output,
\* with its shape and variables, or with the error its reader raised
get_output_summary(f, d, project) ==
    LET filed == SelectSeq(<<"reach", "subbasin", "hru">>,
                           LAMBDA t : get_file(project, FileTypeMap(t)[1]) # <<>>)
        path(t) == get_file(project, FileTypeMap(t)[1])[1].path
        data(t) == OutputReader_read(f, d, path(t), t)
    IN IF ~has_outputs(project)
       THEN [has_outputs |-> FALSE, output_files |-> <<>>, variables |-> <<>>]
       ELSE [has_outputs |-> TRUE,
             output_files |->
                 [i \in 1..Len(filed) |->
                     IF data(filed[i]).status = "ok"
                     THEN [type |-> filed[i], path |-> path(filed[i]),
                           shape |-> <<Len(data(filed[i]).val.data.rows),
                                       Len(data(filed[i]).val.data.columns)>>,
                           variables |-> variables(data(filed[i]).val)]
                     ELSE [type |-> filed[i], path |-> path(filed[i]),
                           error |-> data(filed[i]).status]],
             variables |->
                 [t \in {u \in {"reach", "subbasin", "hru"} :
                            /\ get_file(project, FileTypeMap(u)[1]) # <<>>
                            /\ data(u).status = "ok"} |-> variables(data(t).val)]]

(* ----------------------- visualization/plots.py ----------------------- *)

\* an exception with its message
Raise(msg) == [status |-> "raised", msg |-> msg]

\* SWATPlotter.plot_time_series: the image, or the exception raised on the way
plot_time_series(f, d, project, variable, output_type, spatial_id) ==
    LET data == get_output_data(f, d, project, output_type)
        df == TimeSeriesRows(data[1].data, output_type, spatial_id)
    IN IF data = None THEN Raise("No data found for variable " \o variable)
       ELSE IF IsEmpty(df) THEN Raise("No data found for variable " \o variable)
       ELSE IF ~Contains(df.columns, variable) THEN Raise("'" \o variable \o "'")
       ELSE Ok("image/png")

\* SWATPlotter.plot_comparison: one panel per variable; no panel cannot be drawn
plot_comparison(f, d, project, vars_, output_type) ==
    IF vars_ = <<>> THEN Raise("Number of rows must be a positive integer, not 0")
    ELSE Ok("image/png")

(* ---------------------- integrations/mcp/server.py -------------------- *)

\* str(path)
RECURSIVE JoinParts(_)
JoinParts(parts) ==
    IF parts = <<>> THEN ""
    ELSE IF Len(parts) = 1 THEN parts[1]
    ELSE parts[1] \o "/" \o JoinParts(Tail(parts))
PathStr(p) ==
    IF p.abs THEN "/" \o JoinParts(p.parts)
    ELSE IF p.parts = <<>> THEN "." ELSE JoinParts(p.parts)

\* The content call_tool returns.  A text content made from an exception
\* holds the string "Error: <message>"; every other text content is kept as
\* the value it is the rendering of; an image content holds its MIME type.
ErrorContent(msg) == [kind |-> "error", text |-> "Error: " \o msg]
TextContent(v) == [kind |-> "text", value |-> v]
ImageContent(mime) == [kind |-> "image", mimeType |-> mime]
\* an exception that leaves call_tool
Propagated(msg) == [kind |-> "raised", text |-> msg]

\* arguments: a dict of items, or something that is no dict (None)
Dict(items) == [dict |-> TRUE, items |-> items]
NotADict == [dict |-> FALSE]
NoGet == "'NoneType' object has no attribute 'get'"
NoSubscript == "'NoneType' object is not subscriptable"
Has(arguments, key) == key \in DOMAIN arguments.items
\* arguments.get(key, default)
Get(arguments, key, default) ==
    IF Has(arguments, key) THEN arguments.items[key] ELSE default

NoProjectLoaded == "No project loaded. Use 'load_swat_project' first."

\* the handlers that do without a current project: [out |-> Ok(content) or
\* Raise(message), project |-> the manager's current project afterwards]
mcp_find_projects(f, cur, arguments, o) ==
    [project |-> cur,
     out |-> IF ~arguments.dict THEN Raise(NoGet)
             ELSE LET search_path == Get(arguments, "search_path", RelPath(<<>>))
                      max_depth == Get(arguments, "max_depth", 3)
                      projects == find_projects(f, <<search_path>>, max_depth, o)
                  IN Ok(TextContent([search_path |-> PathStr(search_path),
                                     max_depth |-> max_depth,
                                     projects_found |-> Len(projects),
                                     projects |-> [i \in 1..Len(projects) |->
                                                      PathStr(projects[i])]]))]

mcp_load_project(f, cur, arguments, o) ==
    IF ~arguments.dict THEN [project |-> cur, out |-> Raise(NoSubscript)]
    ELSE IF ~Has(arguments, "project_path")
    THEN [project |-> cur, out |-> Raise("'project_path'")]
    ELSE LET project_path == arguments.items["project_path"]
             r == load_project(f, project_path, o)
         IN IF r.status # "ok"
            THEN [project |-> cur,
                  out |-> Raise((IF ~is_swat_project(f, project_path, o)
                                 THEN "Not a valid SWAT project: "
                                 ELSE "Project path does not exist: ")
                                \o PathStr(project_path))]
            ELSE [project |-> <<r.val>>,
                  out |-> Ok(TextContent(
                      [success |-> TRUE,
                       project_name |-> r.val.name,
                       project_path |-> PathStr(r.val.project_path),
                       file_count |-> Cardinality(
                           UNION {{<<t, i>> : i \in 1..Len(r.val.files[t])} :
                                     t \in DOMAIN r.val.files}),
                       has_outputs |-> has_outputs(r.val)]))]

\* the text of a time series: a fixed message when there is none
SeriesText(data) ==
    IF data = None THEN TextContent("No data found for specified variable")
    ELSE TextContent(data[1])

\* the image a plotter returned as a content, or the exception it raised
ImageOf(img) == IF img.status = "ok" THEN Ok(ImageContent(img.val)) ELSE img

\* arguments.get("spatial_id") as an optional value
SpatialId(arguments) ==
    IF Has(arguments, "spatial_id") THEN Some(arguments.items["spatial_id"]) ELSE None

\* the handlers of the tools that work on the current project: Ok(content)
\* or Raise(message)
mcp_get_project_summary(f, cur) ==
    IF cur = <<>> THEN Raise(NoProjectLoaded)
    ELSE Ok(TextContent(get_project_summary(f, cur[1])))

mcp_get_output_summary(f, d, cur) ==
    IF cur = <<>> THEN Raise(NoProjectLoaded)
    ELSE Ok(TextContent(get_output_summary(f, d, cur[1])))

mcp_get_variable_statistics(f, d, cur, arguments) ==
    IF cur = <<>> THEN Raise(NoProjectLoaded)
    ELSE IF ~arguments.dict THEN Raise(NoSubscript)
    ELSE IF ~Has(arguments, "variable") THEN Raise("'variable'")
    ELSE Ok(TextContent(get_variable_statistics(
                            f, d, cur[1], arguments.items["variable"],
                            Get(arguments, "output_type", "reach"),
                            SpatialId(arguments))))

mcp_get_time_series(f, d, cur, arguments) ==
    IF cur = <<>> THEN Raise(NoProjectLoaded)
    ELSE IF ~arguments.dict THEN Raise(NoSubscript)
    ELSE IF ~Has(arguments, "variable") THEN Raise("'variable'")
    ELSE Ok(SeriesText(get_time_series(
                           f, d, cur[1], arguments.items["variable"],
                           Get(arguments, "output_type", "reach"),
                           SpatialId(arguments))))

mcp_calculate_water_balance(f, d, cur, arguments) ==
    IF cur = <<>> THEN Raise(NoProjectLoaded)
    ELSE IF ~arguments.dict THEN Raise(NoGet)
    ELSE Ok(TextContent(calculate_water_balance(
                            f, d, cur[1], Get(arguments, "output_type", "subbasin"))))

mcp_plot_time_series(f, d, cur, arguments) ==
    IF cur = <<>> THEN Raise(NoProjectLoaded)
    ELSE IF ~arguments.dict THEN Raise(NoSubscript)
    ELSE IF ~Has(arguments, "variable") THEN Raise("'variable'")
    ELSE ImageOf(plot_time_series(
                     f, d, cur[1], arguments.items["variable"],
                     Get(arguments, "output_type", "reach"),
                     SpatialId(arguments)))

mcp_plot_comparison(f, d, cur, arguments) ==
    IF cur = <<>> THEN Raise(NoProjectLoaded)
    ELSE IF ~arguments.dict THEN Raise(NoSubscript)
    ELSE IF ~Has(arguments, "variables") THEN Raise("'variables'")
    ELSE ImageOf(plot_comparison(f, d, cur[1], arguments.items["variables"],
                                 Get(arguments, "output_type", "reach")))

ProjectTools ==
    {"get_project_summary", "get_output_summary", "get_variable_statistics",
     "get_time_series", "calculate_water_balance", "plot_time_series",
     "plot_comparison"}

\* the if/elif chain of call_tool: [out |-> Ok(content) or Raise(message),
\* project |-> the manager's current project afterwards]
dispatch(f, d, cur, name, arguments, o) ==
    IF name = "find_swat_projects" THEN mcp_find_projects(f, cur, arguments, o)
    ELSE IF name = "load_swat_project" THEN mcp_load_project(f, cur, arguments, o)
    ELSE [project |-> cur,
          out |-> CASE name = "get_project_summary" -> mcp_get_project_summary(f, cur)
                    [] name = "get_output_summary" -> mcp_get_output_summary(f, d, cur)
                    [] name = "get_variable_statistics" ->
                           mcp_get_variable_statistics(f, d, cur, arguments)
                    [] name = "get_time_series" -> mcp_get_time_series(f, d, cur, arguments)
                    [] name = "calculate_water_balance" ->
                           mcp_calculate_water_balance(f, d, cur, arguments)
                    [] name = "plot_time_series" -> mcp_plot_time_series(f, d, cur, arguments)
                    [] name = "plot_comparison" -> mcp_plot_comparison(f, d, cur, arguments)
                    [] OTHER -> Raise("Unknown tool: " \o name)]

\* no except clause: the exception leaves call_tool
Uncaught(r) ==
    [project |-> r.project,
     out |-> IF r.out.status = "ok" THEN r.out.val ELSE Propagated(r.out.msg)]

\* except Exception as e: the exception becomes an error text
Caught(r) ==
    [project |-> r.project,
     out |-> IF r.out.status = "ok" THEN r.out.val ELSE ErrorContent(r.out.msg)]

\* a call_tool without its try/except
call_tool_unguarded(f, d, cur, name, arguments, o) ==
    Uncaught(dispatch(f, d, cur, name, arguments, o))

\* call_tool(name, arguments)
call_tool(f, d, cur, name, arguments, o) ==
    Caught(dispatch(f, d, cur, name, arguments, o))

(* --------------------------- io/readers.py ---------------------------- *)

\* the characters a table file is written with
Chars == {" ", "\n", "0", "1", "a"}
Digits == {"0", "1"}
DigitValue == [c \in Digits |-> IF c = "0" THEN 0 ELSE 1]

\* str.isspace of one character
IsSpace(c) == c \in {" ", "\n"}

\* str.splitlines(): a line ends at each line break; no empty last line
RECURSIVE SplitLinesFrom(_, _)
SplitLinesFrom(t, line) ==
    IF t = <<>> THEN (IF line = <<>> THEN <<>> ELSE <<line>>)
    ELSE IF Head(t) = "\n" THEN <<line>> \o SplitLinesFrom(Tail(t), <<>>)
    ELSE SplitLinesFrom(Tail(t), Append(line, Head(t)))
splitlines(t) == SplitLinesFrom(t, <<>>)

\* bool(l.strip())
NonBlank(l) == \E i \in 1..Len(l) : ~IsSpace(l[i])

\* str.split(): the maximal runs of non-whitespace characters
RECURSIVE SplitFrom(_, _)
SplitFrom(l, tok) ==
    IF l = <<>> THEN (IF tok = <<>> THEN <<>> ELSE <<tok>>)
    ELSE IF IsSpace(Head(l))
         THEN (IF tok = <<>> THEN <<>> ELSE <<tok>>) \o SplitFrom(Tail(l), <<>>)
    ELSE SplitFrom(Tail(l), Append(tok, Head(l)))
split(l) == SplitFrom(l, <<>>)

\* what pd.to_numeric parses: here the tokens made of digits only
IsNumeric(tok) == tok # <<>> /\ \A i \in 1..Len(tok) : tok[i] \in Digits
RECURSIVE NumericValue(_)
NumericValue(tok) ==
    IF tok = <<>> THEN 0
    ELSE 10 * NumericValue(SubSeq(tok, 1, Len(tok) - 1)) + DigitValue[tok[Len(tok)]]

\* a cell of the data frame: a string, or a number after coercion
TextCell(tok) == [num |-> FALSE, text |-> tok]
NumberCell(v) == [num |-> TRUE, value |-> v]

\* the column names a caller passes: the first n of these
ColumnNames == <<"SUB", "AREA_KM2", "C3", "C4">>

\* the loop with > where the code has >=
RECURSIVE TableRowsStrict(_, _)
TableRowsStrict(lines, n) ==
    IF lines = <<>> THEN <<>>
    ELSE LET parts == split(Head(lines))
         IN (IF Len(parts) > n THEN <<SubSeq(parts, 1, n)>> ELSE <<>>)
            \o TableRowsStrict(Tail(lines), n)

\* the loop over the lines: the first len(names) parts of each line with enough parts
RECURSIVE TableRows(_, _)
TableRows(lines, n) ==
    IF lines = <<>> THEN <<>>
    ELSE LET parts == split(Head(lines))
         IN (IF Len(parts) >= n THEN <<SubSeq(parts, 1, n)>> ELSE <<>>)
            \o TableRows(Tail(lines), n)

\* a coercion that converts cell by cell, whatever the rest of the column holds
ToNumericPerCell(rows, n) ==
    [r \in 1..Len(rows) |->
        [c \in 1..n |-> IF IsNumeric(rows[r][c]) THEN NumberCell(NumericValue(rows[r][c]))
                        ELSE TextCell(rows[r][c])]]

\* pd.to_numeric(df[c], errors="ignore"), column by column
ToNumeric(rows, n) ==
    LET numeric(c) == \A r \in 1..Len(rows) : IsNumeric(rows[r][c])
    IN [r \in 1..Len(rows) |->
           [c \in 1..n |-> IF numeric(c) THEN NumberCell(NumericValue(rows[r][c]))
                           ELSE TextCell(rows[r][c])]]

\* read_space_table(path, names) for a file holding t and len(names) = n
read_space_table(t, n) ==
    LET lines == SelectSeq(splitlines(t), NonBlank)
    IN [columns |-> SubSeq(ColumnNames, 1, n),
        rows |-> ToNumeric(TableRows(lines, n), n)]

(* ------------------------- io/swat_project.py ------------------------- *)

\* Path.stem: the name without its last suffix; a leading dot starts no suffix
LastDot(name) ==
    LET dots == {i \in 1..Len(name) : SubSeq(name, i, i) = "."}
    IN IF dots = {} THEN 0 ELSE CHOOSE i \in dots : \A j \in dots : j <= i
Stem(name) ==
    IF LastDot(name) > 1 /\ LastDot(name) < Len(name)
    THEN SubSeq(name, 1, LastDot(name) - 1) ELSE name

\* s.split(".")[0]
FirstField(s) ==
    LET dots == {i \in 1..Len(s) : SubSeq(s, i, i) = "."}
    IN IF dots = {} THEN s
       ELSE SubSeq(s, 1, (CHOOSE i \in dots : \A j \in dots : i <= j) - 1)

\* int(s) on the names in use: a run of decimal digits, or ValueError
DecimalDigits == <<"0", "1", "2", "3", "4", "5", "6", "7", "8", "9">>
IsInt(s) == Len(s) > 0 /\ \A i \in 1..Len(s) : Contains(DecimalDigits, SubSeq(s, i, i))
RECURSIVE int(_)
int(s) ==
    IF Len(s) = 0 THEN 0
    ELSE 10 * int(SubSeq(s, 1, Len(s) - 1))
         + (IndexOf(DecimalDigits, SubSeq(s, Len(s), Len(s))) - 1)

\* sorted(paths) of paths that differ in their last segment
RECURSIVE InsertPath(_, _)
InsertPath(x, s) ==
    IF s = <<>> THEN <<x>>
    ELSE IF NameRank[PathName(x)] <= NameRank[PathName(Head(s))] THEN <<x>> \o s
    ELSE <<Head(s)>> \o InsertPath(x, Tail(s))
RECURSIVE SortedPaths(_)
SortedPaths(s) == IF s = <<>> THEN <<>> ELSE InsertPath(Head(s), SortedPaths(Tail(s)))

\* the cell of a missing value
NullCell == [num |-> FALSE, null |-> TRUE]

\* the records of the fallback: one per path whose first field is an integer
RECURSIVE SubRecords(_)
SubRecords(paths) ==
    IF paths = <<>> THEN <<>>
    ELSE LET field == FirstField(Stem(PathName(Head(paths))))
         IN (IF IsInt(field) THEN <<<<NumberCell(int(field)), NullCell>>>> ELSE <<>>)
            \o SubRecords(Tail(paths))

\* pd.DataFrame(records): no columns when there is no record
RecordsFrame(records) ==
    [columns |-> IF records = <<>> THEN <<>> ELSE <<"SUB", "AREA_KM2">>,
     rows |-> records]

\* SWATProject.read_sub() with TablesOut/sub.txt holding t when it is a file
read_sub(f, t, root, o) ==
    LET tab_ == Child(Child(root, TablesOut), SubTxt)
    IN IF exists(f, tab_)
       THEN IF is_dir(f, tab_) THEN Raised("IsADirectoryError")
            ELSE Ok(read_space_table(t, 2))
       ELSE Ok(RecordsFrame(SubRecords(SortedPaths(glob(f, root, "*.sub", o)))))

(* --------------------------- the state -------------------------------- *)

\* ret: the call that has just returned and its result, until the caller takes it
NoRet == [op |-> "none"]
\* current_project: <<>> for None, <<project>> once loaded
NoProject == <<>>

\* everything the environment has put below the working directory
Entries == {q \in DOMAIN fs : Len(q) > Len(Cwd) /\ SubSeq(q, 1, Len(Cwd)) = Cwd}
Dirs == {Cwd} \cup {q \in Entries : fs[q] = "dir"}

\* the paths handed to the operations: every entry, the working directory, a
\* directory that may not exist, and relative spellings
InputPaths ==
    {AbsPath(q) : q \in Entries \cup {Cwd, Append(Cwd, "a")}}
    \cup {RelPath(<<>>), RelPath(<<"a">>), RelPath(<<"a", "..">>)}

SearchDepths == (0 - 1)..MaxSearchDepth

InitFS ==
    /\ fs = (<<>> :> "dir") @@ (Cwd :> "dir")
    /\ current_project = NoProject
    /\ ret = NoRet

\* tab: a result the caller holds on to: <<>> for none, <<call>> for the table
\* read or for a kept result
NoTab == <<>>

\* outdata: what the reach output file holds, NoData while no such file holds
\* modelled content
NoData == [pre |-> 0, lines |-> <<>>]

Init == InitFS /\ text = <<>> /\ tab = NoTab /\ outdata = NoData

(* ------------------------ environment steps --------------------------- *)
\* The environment acts between the program's calls, and keeps at most
\* `most` entries below the working directory, named from `names`.

Mkdir(most, names) ==
    \E d \in Dirs, n \in names :
        /\ ret = NoRet
        /\ Cardinality(Entries) < most
        /\ Len(d) - Len(Cwd) < MaxTreeDepth
        /\ Append(d, n) \notin DOMAIN fs
        /\ fs' = fs @@ (Append(d, n) :> "dir")
        /\ UNCHANGED <<current_project, ret, text, tab, outdata>>

Create(most, names) ==
    \E d \in Dirs, n \in names :
        /\ ret = NoRet
        /\ Cardinality(Entries) < most
        /\ Len(d) - Len(Cwd) < MaxTreeDepth
        /\ Append(d, n) \notin DOMAIN fs
        /\ fs' = fs @@ (Append(d, n) :> "file")
        /\ UNCHANGED <<current_project, ret, text, tab, outdata>>

EnvMkdir == Mkdir(MaxEntries, DirNames)
EnvCreate == Create(MaxEntries, FileNames)

\* the same steps around a running project manager, with the names its claims turn on
MgrDirNames == {"a", "file.cio"}
MgrFileNames == {"file.cio", "w.Master.Watershed.dat", "output.sub", "1.sub"}
MgrMkdir == Mkdir(MaxMgrEntries, MgrDirNames)
MgrCreate == Create(MaxMgrEntries, MgrFileNames)

\* unlink / rmdir of an entry that has nothing inside it
MgrRemove ==
    \E q \in Entries :
        /\ ret = NoRet
        /\ ~\E n \in Names : Append(q, n) \in DOMAIN fs
        /\ fs' = [r \in DOMAIN fs \ {q} |-> fs[r]]
        /\ UNCHANGED <<current_project, ret, text, tab, outdata>>

(* ------------------------- program steps ------------------------------ *)

IsSwatProject ==
    \E p \in InputPaths, o \in DirOrders :
        /\ ret = NoRet
        /\ ret' = [op |-> "is_swat_project", path |-> p, out |-> is_swat_project(fs, p, o)]
        /\ UNCHANGED <<fs, current_project, text, tab, outdata>>

FindSwatProjects ==
    \E p \in InputPaths, d \in SearchDepths, o \in DirOrders :
        /\ ret = NoRet
        /\ ret' = [op |-> "find_swat_projects", path |-> p, max_depth |-> d,
                   out |-> find_swat_projects(fs, p, d, o)]
        /\ UNCHANGED <<fs, current_project, text, tab, outdata>>

ScanProjectFiles ==
    \E p \in InputPaths, o \in DirOrders :
        /\ ret = NoRet
        /\ ret' = [op |-> "scan_project_files", path |-> p,
                   out |-> scan_project_files(fs, p, o)]
        /\ UNCHANGED <<fs, current_project, text, tab, outdata>>

\* the files dicts a caller builds a SWATProject with: any part of a scan, or a
\* dict holding an empty bucket
FilesArgs(p) ==
    LET s == scan_project_files(fs, p, "asc")
    IN {[t \in K |-> s[t]] : K \in SUBSET DOMAIN s} \cup {[t \in {"output_std"} |-> <<>>]}

NewCoreProject ==
    \E p \in InputPaths : \E files \in FilesArgs(p) :
        /\ ret = NoRet
        /\ ret' = [op |-> "SWATProject", path |-> p,
                   out |-> CoreSWATProject(fs, p, PathName(p), files)]
        /\ UNCHANGED <<fs, current_project, text, tab, outdata>>

NewIoProject ==
    \E p \in InputPaths :
        /\ ret = NoRet
        /\ ret' = [op |-> "io.SWATProject", path |-> p, out |-> IoSWATProject(fs, p)]
        /\ UNCHANGED <<fs, current_project, text, tab, outdata>>

HasOutputs ==
    \E p \in InputPaths : \E files \in FilesArgs(p) :
        LET r == CoreSWATProject(fs, p, PathName(p), files)
        IN /\ ret = NoRet
           /\ r.status = "ok"
           /\ ret' = [op |-> "has_outputs", project |-> r.val, out |-> has_outputs(r.val)]
           /\ UNCHANGED <<fs, current_project, text, tab, outdata>>

\* a load that keeps a project that is already loaded
LoadProjectKeepsFirst ==
    \E p \in InputPaths, o \in DirOrders :
        LET r == load_project(fs, p, o)
        IN /\ ret = NoRet
           /\ ret' = [op |-> "load_project", path |-> p, order |-> o,
                      prev |-> current_project, out |-> r]
           /\ current_project' = IF r.status = "ok" /\ current_project = NoProject
                                  THEN <<r.val>> ELSE current_project
           /\ UNCHANGED <<fs, text, tab, outdata>>

\* a load that forgets the current project when it fails
LoadProjectClearsOnFailure ==
    \E p \in InputPaths, o \in DirOrders :
        LET r == load_project(fs, p, o)
        IN /\ ret = NoRet
           /\ ret' = [op |-> "load_project", path |-> p, order |-> o,
                      prev |-> current_project, out |-> r]
           /\ current_project' = IF r.status = "ok" THEN <<r.val>> ELSE NoProject
           /\ UNCHANGED <<fs, text, tab, outdata>>

\* ret.prev: the project that was current when the call was made
LoadProject ==
    \E p \in InputPaths, o \in DirOrders :
        LET r == load_project(fs, p, o)
        IN /\ ret = NoRet
           /\ ret' = [op |-> "load_project", path |-> p, order |-> o,
                      prev |-> current_project, out |-> r]
           /\ current_project' = IF r.status = "ok" THEN <<r.val>> ELSE current_project
           /\ UNCHANGED <<fs, text, tab, outdata>>

\* the depths the manager's callers search to
MgrSearchDepths == {0, MaxSearchDepth}

FindProjects ==
    \E sp \in {<<>>} \cup {<<p>> : p \in InputPaths}, d \in MgrSearchDepths, o \in DirOrders :
        /\ ret = NoRet
        /\ ret' = [op |-> "find_projects", search_path |-> sp, max_depth |-> d,
                   out |-> find_projects(fs, sp, d, o)]
        /\ UNCHANGED <<fs, current_project, text, tab, outdata>>

ValidateProject ==
    \E p \in InputPaths, o \in DirOrders :
        /\ ret = NoRet
        /\ ret' = [op |-> "validate_project", path |-> p, out |-> validate_project(fs, p, o)]
        /\ UNCHANGED <<fs, current_project, text, tab, outdata>>

GetProjectInfo ==
    \E p \in InputPaths, o \in DirOrders :
        /\ ret = NoRet
        /\ ret' = [op |-> "get_project_info", path |-> p, out |-> get_project_info(fs, p, o)]
        /\ UNCHANGED <<fs, current_project, text, tab, outdata>>

\* the summary endpoint: refused without a loaded project
GetProjectSummary ==
    /\ current_project # NoProject
    /\ ret = NoRet
    /\ ret' = [op |-> "get_project_summary",
               out |-> get_project_summary(fs, current_project[1])]
    /\ UNCHANGED <<fs, current_project, text, tab, outdata>>

\* the caller takes the result; the next call can be made
Return ==
    /\ ret # NoRet
    /\ ret' = NoRet
    /\ UNCHANGED <<fs, current_project, text, tab, outdata>>

\* discovery and classification over a changing directory tree
Next ==
    \/ EnvMkdir \/ EnvCreate \/ Return
    \/ IsSwatProject \/ FindSwatProjects \/ ScanProjectFiles

Spec == Init /\ [][Next]_vars

\* construction of the two project classes over a changing directory tree
NextNew ==
    \/ MgrMkdir \/ MgrCreate \/ Return
    \/ NewCoreProject \/ NewIoProject \/ HasOutputs

SpecNew == Init /\ [][NextNew]_vars

\* the project manager and the summary service over a changing directory tree
NextMgr ==
    \/ MgrMkdir \/ MgrCreate \/ MgrRemove \/ Return
    \/ LoadProject \/ GetProjectSummary \/ FindProjects
    \/ ValidateProject \/ GetProjectInfo

SpecMgr == Init /\ [][NextMgr]_vars

\* discovery in a tree that holds two sibling project roots from the start
InitOrder ==
    /\ fs = (<<>> :> "dir") @@ (Cwd :> "dir")
            @@ (Append(Cwd, "1.sub") :> "dir")
            @@ (<<"w", "1.sub", "file.cio">> :> "file")
            @@ (Append(Cwd, "a") :> "dir")
            @@ (<<"w", "a", "file.cio">> :> "file")
    /\ current_project = NoProject
    /\ ret = NoRet
    /\ text = <<>> /\ tab = NoTab /\ outdata = NoData

OrderMkdir == Mkdir(MaxOrderEntries, DirNames)
OrderCreate == Create(MaxOrderEntries, {"file.cio"})

NextOrder ==
    \/ OrderMkdir \/ OrderCreate \/ Return
    \/ FindSwatProjects

SpecOrder == InitOrder /\ [][NextOrder]_vars

\* the contents a table file can have
Texts == UNION {[1..k -> Chars] : k \in 0..MaxText}

InitTable == InitFS /\ text \in Texts /\ tab = NoTab /\ outdata = NoData

ReadSpaceTable ==
    \E n \in 1..MaxNames :
        /\ tab = NoTab
        /\ tab' = <<[names |-> n, out |-> read_space_table(text, n)]>>
        /\ UNCHANGED <<fs, current_project, ret, text, outdata>>

\* the caller drops the data frame
DropTable ==
    /\ tab # NoTab
    /\ tab' = NoTab
    /\ UNCHANGED <<fs, current_project, ret, text, outdata>>

NextTable == ReadSpaceTable \/ DropTable

\* the headerless table reader over every file content
SpecTable == InitTable /\ [][NextTable]_vars

(* ----------------------- the output file's content -------------------- *)

\* rows in an output table
MaxRows == 3
\* cells (rows times columns) in an output table
MaxCells == 6

\* the columns an output table is written with, in the order they are written
ReachColumns == <<"DAY", "MON", "YEAR", "RCH", "FLOW_OUT">>
BalanceColumns == <<"RCH", "PRECIP", "PRECIPmm", "ET">>

\* the values written to a column
ColumnValues(name) ==
    CASE name \in {"DAY", "MON", "YEAR"} -> {1}
      [] name = "RCH" -> {1, 2}
      [] name \in {"FLOW_OUT", "PRECIP"} -> {10, 20, 30}
      [] name = "PRECIPmm" -> {3, 4}
      [] name = "ET" -> {5, 6}
AllValues == {1, 2, 3, 4, 5, 6, 10, 20, 30}

\* the headers over a list of columns: any of them, in the order written
Headers(universe) ==
    {SelectSeq(universe, LAMBDA n : n \in S) :
        S \in (SUBSET {universe[i] : i \in 1..Len(universe)}) \ {{}}}

RowsOf(header) ==
    {row \in [1..Len(header) -> AllValues] :
        \A i \in 1..Len(header) : row[i] \in ColumnValues(header[i])}

\* a full preamble, a header and rows
Tables(universe) ==
    UNION {UNION {{[pre |-> SkipLines, lines |-> <<h>> \o rows] :
                      rows \in [1..k -> RowsOf(h)]} :
                  k \in {j \in 0..MaxRows : j * Len(h) <= MaxCells}} :
           h \in Headers(universe)}

\* files that end within or right after the preamble
ShortFiles == {[pre |-> k, lines |-> <<>>] : k \in {0, SkipLines - 1, SkipLines}}

OutputPath == Append(Cwd, OutputRch)

\* a project directory holding file.cio and output.rch, and no project loaded
InitOutput(universe) ==
    /\ fs = (<<>> :> "dir") @@ (Cwd :> "dir")
            @@ (Append(Cwd, "file.cio") :> "file") @@ (OutputPath :> "file")
    /\ outdata \in Tables(universe) \cup ShortFiles
    /\ current_project = NoProject
    /\ ret = NoRet
    /\ text = <<>>
    /\ tab = NoTab

\* the environment deletes the output file
RemoveOutput ==
    /\ ret = NoRet
    /\ OutputPath \in DOMAIN fs
    /\ fs' = [q \in DOMAIN fs \ {OutputPath} |-> fs[q]]
    /\ outdata' = NoData
    /\ UNCHANGED <<current_project, ret, text, tab>>

\* the environment puts a directory where the output file was
MkdirOutput ==
    /\ ret = NoRet
    /\ OutputPath \notin DOMAIN fs
    /\ fs' = fs @@ (OutputPath :> "dir")
    /\ UNCHANGED <<current_project, ret, text, tab, outdata>>

\* load_project on the project directory
LoadOutputProject ==
    \E o \in DirOrders :
        LET r == load_project(fs, AbsPath(Cwd), o)
        IN /\ ret = NoRet
           /\ ret' = [op |-> "load_project", path |-> AbsPath(Cwd), order |-> o,
                      prev |-> current_project, out |-> r]
           /\ current_project' = IF r.status = "ok" THEN <<r.val>> ELSE current_project
           /\ UNCHANGED <<fs, text, tab, outdata>>

\* the arguments the analysis is called with
OutputTypeArgs == {"reach", "subbasin", "hru", "other"}
VariableArgs == {"FLOW_OUT", "SED_OUT"}
SpatialIdArgs == {None, Some(1), Some(3)}

\* (variable, output_type, spatial_id) of a query: everything on the reach
\* output, one query on each other output type
QueryArgs ==
    {<<v, "reach", i>> : v \in VariableArgs, i \in SpatialIdArgs}
    \cup {<<"FLOW_OUT", t, None>> : t \in OutputTypeArgs \ {"reach"}}

\* OutputReader(path, output_type).read()
OutputReaderRead ==
    \E t \in OutputTypeArgs :
        /\ ret = NoRet
        /\ ret' = [op |-> "OutputReader.read", path |-> AbsPath(OutputPath),
                   output_type |-> t,
                   out |-> OutputReader_read(fs, outdata, AbsPath(OutputPath), t)]
        /\ UNCHANGED <<fs, current_project, text, tab, outdata>>

\* AnalysisService(current_project).get_variable_statistics(...)
GetVariableStatistics ==
    \E a \in QueryArgs :
        /\ ret = NoRet
        /\ current_project # NoProject
        /\ ret' = [op |-> "get_variable_statistics", variable |-> a[1],
                   output_type |-> a[2], spatial_id |-> a[3],
                   out |-> get_variable_statistics(fs, outdata, current_project[1],
                                                   a[1], a[2], a[3])]
        /\ UNCHANGED <<fs, current_project, text, tab, outdata>>

\* AnalysisService(current_project).get_time_series(...)
GetTimeSeries ==
    \E a \in QueryArgs :
        /\ ret = NoRet
        /\ current_project # NoProject
        /\ ret' = [op |-> "get_time_series", variable |-> a[1],
                   output_type |-> a[2], spatial_id |-> a[3],
                   out |-> get_time_series(fs, outdata, current_project[1],
                                           a[1], a[2], a[3])]
        /\ UNCHANGED <<fs, current_project, text, tab, outdata>>

\* AnalysisService(current_project).calculate_water_balance(output_type)
CalculateWaterBalance ==
    \E t \in OutputTypeArgs :
        /\ ret = NoRet
        /\ current_project # NoProject
        /\ ret' = [op |-> "calculate_water_balance", output_type |-> t,
                   out |-> calculate_water_balance(fs, outdata, current_project[1], t)]
        /\ UNCHANGED <<fs, current_project, text, tab, outdata>>

\* current_project.has_outputs()
ProjectHasOutputs ==
    /\ ret = NoRet
    /\ current_project # NoProject
    /\ ret' = [op |-> "has_outputs", project |-> current_project[1],
               out |-> has_outputs(current_project[1])]
    /\ UNCHANGED <<fs, current_project, text, tab, outdata>>

\* the columns of an output file that serves every analysis call
SnapshotColumns == <<"FLOW_OUT", "PRECIP">>

\* the environment writes the output file anew: both columns, one row
CreateOutput ==
    \E row \in RowsOf(SnapshotColumns) :
        /\ ret = NoRet
        /\ OutputPath \notin DOMAIN fs
        /\ fs' = fs @@ (OutputPath :> "file")
        /\ outdata' = [pre |-> SkipLines, lines |-> <<SnapshotColumns, row>>]
        /\ UNCHANGED <<current_project, ret, text, tab>>

InitSnapshot == InitOutput(SnapshotColumns)

\* a loaded project's analysis while the output file goes and comes
NextSnapshot ==
    \/ RemoveOutput \/ CreateOutput \/ Return \/ LoadOutputProject
    \/ ProjectHasOutputs
    \/ GetVariableStatistics \/ GetTimeSeries \/ CalculateWaterBalance

SpecSnapshot == InitSnapshot /\ [][NextSnapshot]_vars

\* the subbasin table's contents
SubTexts == UNION {[1..k -> Chars] : k \in 0..MaxSubText}

InitSub == InitFS /\ text \in SubTexts /\ tab = NoTab /\ outdata = NoData

\* the environment puts subbasin files, or directories of such names, into the
\* project directory, and the table, or a directory of its name, into TablesOut
SubMkdir ==
    \E q \in {Append(Cwd, TablesOut), Append(Cwd, "1.sub"),
              <<"w", "TablesOut", "sub.txt">>} :
        /\ ret = NoRet
        /\ Cardinality(Entries) < MaxSubEntries
        /\ q \notin DOMAIN fs
        /\ Parent(q) \in Dirs
        /\ fs' = fs @@ (q :> "dir")
        /\ UNCHANGED <<current_project, ret, text, tab, outdata>>

SubCreate ==
    \E q \in {Append(Cwd, n) : n \in SubFileNames} \cup {<<"w", "TablesOut", "sub.txt">>} :
        /\ ret = NoRet
        /\ Cardinality(Entries) < MaxSubEntries
        /\ q \notin DOMAIN fs
        /\ Parent(q) \in Dirs
        /\ fs' = fs @@ (q :> "file")
        /\ UNCHANGED <<current_project, ret, text, tab, outdata>>

\* SWATProject(root).read_sub()
ReadSub ==
    \E p \in {AbsPath(Cwd), RelPath(<<>>), AbsPath(Append(Cwd, "a"))}, o \in DirOrders :
        LET project == IoSWATProject(fs, p)
        IN /\ ret = NoRet
           /\ ret' = [op |-> "read_sub", path |-> p,
                      out |-> IF project.status # "ok" THEN project
                              ELSE read_sub(fs, text, project.val.root, o)]
           /\ UNCHANGED <<fs, current_project, text, tab, outdata>>

\* the subbasin table and its fallback over a changing project directory
NextSub == SubMkdir \/ SubCreate \/ Return \/ ReadSub

SpecSub == InitSub /\ [][NextSub]_vars

\* what the output file holds while it is read again and again: a column and
\* a row, or nothing after the preamble
ReadContents ==
    {[pre |-> SkipLines, lines |-> <<<<c>>, <<v>>>>] :
        c \in {"FLOW_OUT", "PRECIP"}, v \in {10, 20}}
    \cup {[pre |-> SkipLines, lines |-> <<>>]}

InitReads ==
    /\ fs = (<<>> :> "dir") @@ (Cwd :> "dir")
            @@ (Append(Cwd, "file.cio") :> "file") @@ (OutputPath :> "file")
    /\ outdata \in ReadContents
    /\ current_project = NoProject
    /\ ret = NoRet
    /\ text = <<>>
    /\ tab = NoTab

\* the environment writes the output file over
RewriteOutput ==
    \E d \in ReadContents :
        /\ ret = NoRet
        /\ is_file(fs, AbsPath(OutputPath))
        /\ d # outdata
        /\ outdata' = d
        /\ UNCHANGED <<fs, current_project, ret, text, tab>>

\* the caller keeps the result of a read or of an analysis call; tab then
\* holds the call and what the file held when it was made
KeepResult ==
    /\ ret.op \in {"OutputReader.read", "get_variable_statistics"}
    /\ tab' = <<[call |-> ret, read |-> outdata]>>
    /\ ret' = NoRet
    /\ UNCHANGED <<fs, current_project, text, outdata>>

\* reads and analysis calls repeated while the file is written over
NextReads ==
    \/ RewriteOutput \/ Return \/ KeepResult \/ LoadOutputProject
    \/ OutputReaderRead \/ GetVariableStatistics

SpecReads == InitReads /\ [][NextReads]_vars

\* the tool names and arguments a client sends
ToolNames == ProjectTools \cup {"find_swat_projects", "load_swat_project", "no_such_tool"}
ToolArguments ==
    {NotADict, Dict(<<>>),
     Dict([k \in {"project_path"} |-> AbsPath(Cwd)]),
     Dict([k \in {"project_path"} |-> AbsPath(Append(Cwd, "a"))]),
     Dict([k \in {"search_path"} |-> AbsPath(Cwd)]),
     Dict([k \in {"variable"} |-> "FLOW_OUT"]),
     Dict([k \in {"variable"} |-> "SED_OUT"]),
     Dict([k \in {"variables"} |-> <<"FLOW_OUT">>]),
     Dict([k \in {"variables"} |-> <<>>]),
     Dict([k \in {"output_type"} |-> "reach"])}

\* one call of the server's call_tool; ret.prev is the project that was
\* current when the call was made
CallTool ==
    \E name \in ToolNames, arguments \in ToolArguments, o \in DirOrders :
        LET r == call_tool(fs, outdata, current_project, name, arguments, o)
        IN /\ ret = NoRet
           /\ ret' = [op |-> "call_tool", name |-> name, arguments |-> arguments,
                      prev |-> current_project, out |-> r.out]
           /\ current_project' = r.project
           /\ UNCHANGED <<fs, text, tab, outdata>>

InitMcp == InitOutput(<<"FLOW_OUT">>)

\* a session of the MCP server while the output file may go
NextMcp == RemoveOutput \/ Return \/ CallTool

SpecMcp == InitMcp /\ [][NextMcp]_vars

InitAnalysis == InitOutput(ReachColumns)

\* the reader, the statistics and the time series over a reach output file
NextAnalysis ==
    \/ RemoveOutput \/ MkdirOutput \/ Return \/ LoadOutputProject
    \/ OutputReaderRead \/ GetVariableStatistics \/ GetTimeSeries

SpecAnalysis == InitAnalysis /\ [][NextAnalysis]_vars

InitBalance == InitOutput(BalanceColumns)

\* the water balance over an output file with balance columns
NextBalance ==
    \/ RemoveOutput \/ MkdirOutput \/ Return \/ LoadOutputProject
    \/ CalculateWaterBalance

SpecBalance == InitBalance /\ [][NextBalance]_vars

(* ============================ properties ============================== *)

\* q lies strictly below p (same spelling of the common part)
IsProperDescendant(q, p) ==
    /\ q.abs = p.abs
    /\ Len(q.parts) > Len(p.parts)
    /\ SubSeq(q.parts, 1, Len(p.parts)) = p.parts

\* the directory a path leads to holds an entry of that name / an entry
\* ending in .Master.Watershed.dat
HasControlFile(p) == "file.cio" \in EntryNames(fs, p)
HasMasterWatershed(p) ==
    \E n \in EntryNames(fs, p) :
        Len(n) >= 21 /\ SubSeq(n, Len(n) - 20, Len(n)) = ".Master.Watershed.dat"

\* C1: find_swat_projects(root, max_depth) returns no path more than max_depth
\* levels below root and no path that is a proper descendant of another
\* returned path.
C1_FindDepthAndNoNesting ==
    ret.op = "find_swat_projects" =>
        \A i \in 1..Len(ret.out) :
            /\ ret.out[i] = ret.path \/ IsProperDescendant(ret.out[i], ret.path)
            /\ Len(ret.out[i].parts) - Len(ret.path.parts) <= ret.max_depth
            /\ \A j \in 1..Len(ret.out) : ~IsProperDescendant(ret.out[i], ret.out[j])

\* a search that returned a project while a project root nested inside it,
\* within max_depth, was left out
C1_Witness ==
    /\ ret.op = "find_swat_projects"
    /\ \E i \in 1..Len(ret.out) : \E q \in Entries :
          /\ ret.path.abs
          /\ IsProperDescendant(AbsPath(q), ret.out[i])
          /\ Len(q) - Len(ret.path.parts) <= ret.max_depth
          /\ is_swat_project(fs, AbsPath(q), "asc")

\* C2: is_swat_project(D) is true for every directory D that directly holds an
\* entry named file.cio, and false for every D that is no directory or holds
\* neither file.cio nor an entry matching *.Master.Watershed.dat.
C2_IsSwatProject ==
    ret.op = "is_swat_project" =>
        /\ (is_dir(fs, ret.path) /\ HasControlFile(ret.path)) => ret.out
        /\ (~is_dir(fs, ret.path)
               \/ (~HasControlFile(ret.path) /\ ~HasMasterWatershed(ret.path))) => ~ret.out

\* a directory holding xfile.cio and no indicator, found to be no project
C2_Witness ==
    /\ ret.op = "is_swat_project"
    /\ is_dir(fs, ret.path)
    /\ "xfile.cio" \in EntryNames(fs, ret.path)
    /\ ~ret.out

\* the paths filed in a bucket
BucketPaths(bucket) == {bucket[i].path : i \in 1..Len(bucket)}

\* C3: in the mapping one scan_project_files call returns, no file is filed
\* under more than one file type.
C3_NoFileUnderTwoTypes ==
    ret.op = "scan_project_files" =>
        \A t \in DOMAIN ret.out : \A u \in DOMAIN ret.out :
            t # u => BucketPaths(ret.out[t]) \cap BucketPaths(ret.out[u]) = {}

\* the regular files directly inside p whose name matches a pattern declared for t
MatchingFiles(p, t) ==
    {Child(p, n) : n \in {m \in EntryNames(fs, p) :
        /\ is_file(fs, Child(p, m))
        /\ \E i \in 1..Len(PatternsOf(t)) : fnmatch(m, PatternsOf(t)[i])}}

\* C4: scan_project_files(root)[T] holds a SWATFile for p iff p is a regular
\* file directly inside root whose name matches a pattern declared for T, each
\* with file_type T; a type without a match (and CONFIG, UNKNOWN) has no
\* bucket; a root that is no directory gives the empty mapping.
C4_ScanBuckets ==
    ret.op = "scan_project_files" =>
        /\ DOMAIN ret.out \subseteq PatternTypes
        /\ ~is_dir(fs, ret.path) => DOMAIN ret.out = {}
        /\ is_dir(fs, ret.path) =>
              \A t \in PatternTypes :
                  /\ t \in DOMAIN ret.out <=> MatchingFiles(ret.path, t) # {}
                  /\ t \in DOMAIN ret.out =>
                        /\ BucketPaths(ret.out[t]) = MatchingFiles(ret.path, t)
                        /\ \A i \in 1..Len(ret.out[t]) : ret.out[t][i].file_type = t

\* a scan that filed a file while a directory named 1.sub stood beside it
C4_Witness ==
    /\ ret.op = "scan_project_files"
    /\ is_dir(fs, Child(ret.path, "1.sub"))
    /\ DOMAIN ret.out # {}
    /\ "subbasin" \notin DOMAIN ret.out

\* the root a project class holds: the path as given (core), resolved (io)
RootOf(op, p) == IF op = "io.SWATProject" THEN resolve(p) ELSE p

C6_RootResolvedAndNamed ==
    (ret.op = "load_project" /\ ret.out.status = "ok") =>
        /\ ret.out.val.project_path.abs
        /\ ret.out.val.project_path = resolve(ret.path)
        /\ ret.out.val.name = PathName(resolve(ret.path))

OutputKinds == {"output_std", "output_rch", "output_sub", "output_hru", "output_rsv"}

\* C7: has_outputs() is true iff one of the buckets OUTPUT_STD, OUTPUT_RCH,
\* OUTPUT_SUB, OUTPUT_HRU, OUTPUT_RSV is non-empty.
C7_HasOutputs ==
    ret.op = "has_outputs" =>
        (ret.out <=> \E t \in OutputKinds \cap DOMAIN ret.project.files :
                        ret.project.files[t] # <<>>)

\* a project with a non-empty input bucket and no outputs
C7_Witness ==
    /\ ret.op = "has_outputs"
    /\ ~ret.out
    /\ \E t \in DOMAIN ret.project.files : ret.project.files[t] # <<>>

\* every file of the project is an entry-path directly inside its own root
OwnFilesOnly(project) ==
    \A t \in DOMAIN project.files : \A i \in 1..Len(project.files[t]) :
        \E n \in Names : project.files[t][i].path = Child(project.project_path, n)

\* C8: after a successful load_project the current project is the one that
\* load built, from a scan of its own directory and with no file of the
\* project it replaced; get_project_summary reports counts, has_outputs and
\* size of the current project's buckets only.
C8_LoadReplaces ==
    /\ (ret.op = "load_project" /\ ret.out.status = "ok") =>
          /\ current_project = <<ret.out.val>>
          /\ ret.out.val.project_path = ret.path
          /\ OwnFilesOnly(ret.out.val)
          /\ \A t \in DOMAIN ret.out.val.files :
                BucketPaths(ret.out.val.files[t]) = MatchingFiles(ret.path, t)
          /\ (ret.prev # NoProject /\ ret.prev[1].project_path # ret.path) =>
                \A t \in DOMAIN ret.out.val.files : \A u \in DOMAIN ret.prev[1].files :
                    BucketPaths(ret.out.val.files[t]) \cap BucketPaths(ret.prev[1].files[u]) = {}
    /\ ret.op = "get_project_summary" =>
          LET p == current_project[1]
          IN /\ OwnFilesOnly(p)
             /\ ret.out.name = p.name
             /\ ret.out.path = p.project_path
             /\ DOMAIN ret.out.file_counts = {t \in DOMAIN p.files : p.files[t] # <<>>}
             /\ \A t \in DOMAIN ret.out.file_counts :
                   ret.out.file_counts[t] = Cardinality(BucketPaths(p.files[t]))
             /\ ret.out.has_outputs <=>
                   \E t \in OutputKinds \cap DOMAIN p.files : p.files[t] # <<>>
             /\ ret.out.size_mb = RoundMB(SumBuckets(fs, p.files, DOMAIN p.files))

\* a second project loaded over a first one that had outputs, itself without
C8_Witness ==
    /\ ret.op = "load_project"
    /\ ret.out.status = "ok"
    /\ ret.prev # NoProject
    /\ ret.prev[1].project_path # ret.path
    /\ has_outputs(ret.prev[1])
    /\ ~has_outputs(ret.out.val)

\* C9 as stated: load_project is rejected for every directory that lacks file.cio.
C9_RejectsWithoutControlFile ==
    (ret.op = "load_project" /\ is_dir(fs, ret.path) /\ ~HasControlFile(ret.path))
        => ret.out.status # "ok"

\* C9: load_project is rejected with an error for every directory that holds
\* neither file.cio nor an entry matching *.Master.Watershed.dat, whereas
\* find_projects returns normally and leaves such directories out.
C9_RejectsNonProjects ==
    /\ (ret.op = "load_project" /\ is_dir(fs, ret.path)
           /\ ~HasControlFile(ret.path) /\ ~HasMasterWatershed(ret.path))
          => ret.out.status = "ValueError"
    /\ ret.op = "find_projects" =>
          \A i \in 1..Len(ret.out) :
              HasControlFile(ret.out[i]) \/ HasMasterWatershed(ret.out[i])

\* a directory without indicators, refused by load_project
C9_Witness ==
    /\ ret.op = "load_project"
    /\ is_dir(fs, ret.path)
    /\ ~HasControlFile(ret.path) /\ ~HasMasterWatershed(ret.path)
    /\ ret.out.status = "ValueError"

\* the lines of the file that make a row: not blank, at least n parts
RowLines(t, n) ==
    LET ls == splitlines(t)
    IN SelectSeq(ls, LAMBDA l : NonBlank(l) /\ Len(split(l)) >= n)

\* a cell holds the value of a token: its text, or the number it spells
HoldsToken(cell, tok) ==
    IF cell.num THEN IsNumeric(tok) /\ cell.value = NumericValue(tok)
    ELSE cell.text = tok

\* C10: the rows of read_space_table(path, names), N = len(names), are in file
\* order the non-blank lines with at least N tokens, each row holding the
\* values of the line's first N tokens in column order.
C10_RowsAreFirstTokens ==
    tab # NoTab =>
        LET n == tab[1].names
            rows == tab[1].out.rows
            from == RowLines(text, n)
        IN /\ Len(tab[1].out.columns) = n
           /\ Len(rows) = Len(from)
           /\ \A r \in 1..Len(rows) :
                 /\ DOMAIN rows[r] = 1..n
                 /\ \A c \in 1..n : HoldsToken(rows[r][c], split(from[r])[c])

\* a read that dropped a short line and kept a later one
C10_Witness ==
    /\ tab # NoTab
    /\ Len(tab[1].out.rows) >= 1
    /\ \E i \in 1..Len(splitlines(text)) :
          /\ NonBlank(splitlines(text)[i])
          /\ Len(split(splitlines(text)[i])) < tab[1].names

\* C11: read_space_table coerces column by column, each column on its own: a
\* column whose every row holds numeric text becomes numbers, a column with at
\* least one non-numeric row keeps every value as the text that was read.
C11_CoercionPerColumn ==
    tab # NoTab =>
        LET n == tab[1].names
            rows == tab[1].out.rows
            from == RowLines(text, n)
            token(r, c) == split(from[r])[c]
        IN /\ Len(rows) = Len(from)
           /\ \A c \in 1..n :
                 IF \A r \in 1..Len(from) : IsNumeric(token(r, c))
                 THEN \A r \in 1..Len(rows) :
                         rows[r][c] = NumberCell(NumericValue(token(r, c)))
                 ELSE \A r \in 1..Len(rows) : rows[r][c] = TextCell(token(r, c))

\* a column with a numeric and a non-numeric token, read as text throughout
C11_Witness ==
    /\ tab # NoTab
    /\ \E c \in 1..tab[1].names :
          \E r1, r2 \in 1..Len(tab[1].out.rows) :
             /\ IsNumeric(split(RowLines(text, tab[1].names)[r1])[c])
             /\ ~IsNumeric(split(RowLines(text, tab[1].names)[r2])[c])
             /\ ~tab[1].out.rows[r1][c].num

\* the parser has nothing to parse at p: a directory, or a file with no line
\* after the skipped ones
ParsingRaises(p) ==
    \/ is_dir(fs, p)
    \/ /\ is_file(fs, p)
       /\ outdata.pre + Len(outdata.lines) <= SkipLines

\* C12: for an existing output file OutputReader.read() never lets a parse
\* failure out: whenever parsing raises, it returns a data set with no rows and
\* no columns, of the class that output_type selects.
C12_ReadSwallowsParseErrors ==
    (/\ ret.op = "OutputReader.read"
     /\ exists(fs, ret.path)
     /\ ParsingRaises(ret.path)) =>
        /\ ret.out.status = "ok"
        /\ ret.out.val.data.columns = <<>>
        /\ ret.out.val.data.rows = <<>>
        /\ ret.out.val.class =
              (CASE ret.output_type = "reach" -> "ReachOutput"
                 [] ret.output_type = "subbasin" -> "SubbasinOutput"
                 [] ret.output_type = "hru" -> "HRUOutput"
                 [] OTHER -> "OutputData")

\* a read of a file that ends inside the preamble, returned as an empty
\* subbasin data set
C12_Witness ==
    /\ ret.op = "OutputReader.read"
    /\ is_file(fs, ret.path)
    /\ outdata.pre = SkipLines - 1
    /\ ret.output_type = "subbasin"
    /\ ret.out.status = "ok"
    /\ ret.out.val.data = EmptyFrame

\* the table the reach output file holds now: its header and its rows
HasTable ==
    /\ is_file(fs, AbsPath(OutputPath))
    /\ outdata.pre = SkipLines
    /\ outdata.lines # <<>>
HeaderNow == IF HasTable THEN outdata.lines[1] ELSE <<>>
RowsNow == IF HasTable THEN Tail(outdata.lines) ELSE <<>>

\* the file type an output type is read from
OutputFileType(t) ==
    CASE t = "reach" -> "output_rch"
      [] t = "subbasin" -> "output_sub"
      [] t = "hru" -> "output_hru"
      [] OTHER -> "unknown"

\* the project has a file for output type t and that file is there now
DataResolved(project, t) ==
    /\ OutputFileType(t) \in DOMAIN project.files
    /\ project.files[OutputFileType(t)] # <<>>
    /\ exists(fs, project.files[OutputFileType(t)][1].path)

\* the values of column name in the given rows of the table
ValuesIn(rows, name) ==
    [r \in 1..Len(rows) |-> rows[r][CHOOSE i \in 1..Len(HeaderNow) : HeaderNow[i] = name]]

\* the rows of the table whose RCH is id
RowsOfReach(id) ==
    SelectSeq(RowsNow,
              LAMBDA r : r[CHOOSE i \in 1..Len(HeaderNow) : HeaderNow[i] = "RCH"] = id)

InHeader(name) == \E i \in 1..Len(HeaderNow) : HeaderNow[i] = name

\* the query names a reach and no row of the table is of that reach
NoRowMatches ==
    /\ ret.output_type = "reach"
    /\ ret.spatial_id # None
    /\ InHeader("RCH")
    /\ RowsOfReach(ret.spatial_id[1]) = <<>>

\* C13: get_variable_statistics returns the 'variable not found' error value
\* (an error entry and no statistics) whenever the data set of the output kind
\* cannot be resolved or has no column named variable.
C13_NotFoundIsAnErrorValue ==
    (/\ ret.op = "get_variable_statistics"
     /\ \/ ~DataResolved(current_project[1], ret.output_type)
        \/ ~InHeader(ret.variable)) =>
        /\ DOMAIN ret.out = {"error"}
        /\ ret.out.error = "Variable " \o ret.variable \o " not found"

\* a query for a variable that is no column of a table that has rows
C13_Witness ==
    /\ ret.op = "get_variable_statistics"
    /\ DataResolved(current_project[1], ret.output_type)
    /\ HasTable
    /\ RowsNow # <<>>
    /\ ~InHeader(ret.variable)
    /\ DOMAIN ret.out = {"error"}

\* C14: with a spatial_id, get_variable_statistics takes the statistics over
\* exactly the rows whose ID column equals spatial_id when there is such a
\* row, and over all rows, without an error, when no row matches or the ID
\* column is absent.
C14_SpatialFilterFallsBack ==
    (/\ ret.op = "get_variable_statistics"
     /\ ret.output_type = "reach"
     /\ ret.spatial_id # None
     /\ DataResolved(current_project[1], ret.output_type)
     /\ InHeader(ret.variable)) =>
        /\ "error" \notin DOMAIN ret.out
        /\ IF InHeader("RCH") /\ RowsOfReach(ret.spatial_id[1]) # <<>>
           THEN ret.out = Statistics(ret.variable,
                                     ValuesIn(RowsOfReach(ret.spatial_id[1]), ret.variable))
           ELSE ret.out = Statistics(ret.variable, ValuesIn(RowsNow, ret.variable))

\* statistics over the rows of one reach of a table that has rows of another
C14_Witness ==
    /\ ret.op = "get_variable_statistics"
    /\ ret.spatial_id # None
    /\ InHeader(ret.variable)
    /\ InHeader("RCH")
    /\ RowsOfReach(ret.spatial_id[1]) # <<>>
    /\ Len(RowsOfReach(ret.spatial_id[1])) < Len(RowsNow)
    /\ ret.out.count = Len(RowsOfReach(ret.spatial_id[1]))

\* C15: get_time_series returns None whenever the variable column is absent or
\* spatial_id matches no row of the ID column; for the same data set and the
\* same non-matching spatial_id get_variable_statistics returns the statistics
\* of all rows, so the two results differ.
C15_TimeSeriesNoneStatisticsAll ==
    /\ (/\ ret.op = "get_time_series"
        /\ \/ ~DataResolved(current_project[1], ret.output_type)
           \/ ~InHeader(ret.variable)
           \/ NoRowMatches) => ret.out = None
    /\ (/\ ret.op = "get_variable_statistics"
        /\ DataResolved(current_project[1], ret.output_type)
        /\ InHeader(ret.variable)
        /\ NoRowMatches) =>
          /\ ret.out = Statistics(ret.variable, ValuesIn(RowsNow, ret.variable))
          /\ get_time_series(fs, outdata, current_project[1], ret.variable,
                             ret.output_type, ret.spatial_id) = None

\* a time series for a reach that no row of a table with rows belongs to
C15_Witness ==
    /\ ret.op = "get_time_series"
    /\ InHeader(ret.variable)
    /\ RowsNow # <<>>
    /\ NoRowMatches
    /\ ret.out = None

\* C16: for a column that holds a non-empty list of integers the statistics
\* report count = number of rows, min and max = least and greatest value and
\* mean = sum / count; the values 10, 20, 30 give count 3, mean 20, min 10 and
\* max 30.
C16_CountMeanMinMax ==
    (/\ ret.op = "get_variable_statistics"
     /\ ret.spatial_id = None
     /\ DataResolved(current_project[1], ret.output_type)
     /\ InHeader(ret.variable)
     /\ RowsNow # <<>>) =>
        LET vals == ValuesIn(RowsNow, ret.variable)
            n == Len(vals)
        IN /\ ret.out.count = n
           /\ ret.out.min.den = 1
           /\ \E i \in 1..n : vals[i] = ret.out.min.num
           /\ \A i \in 1..n : vals[i] >= ret.out.min.num
           /\ ret.out.max.den = 1
           /\ \E i \in 1..n : vals[i] = ret.out.max.num
           /\ \A i \in 1..n : vals[i] <= ret.out.max.num
           /\ ret.out.mean.den > 0
           /\ ret.out.mean.num * n = SeqSum(vals) * ret.out.mean.den
           /\ vals = <<10, 20, 30>> =>
                 /\ ret.out.count = 3
                 /\ ret.out.mean.num = 20 * ret.out.mean.den
                 /\ ret.out.min = Ratio(10, 1)
                 /\ ret.out.max = Ratio(30, 1)

\* the statistics of a column holding 10, 20, 30
C16_Witness ==
    /\ ret.op = "get_variable_statistics"
    /\ ret.output_type = "reach"
    /\ ret.spatial_id = None
    /\ InHeader(ret.variable)
    /\ ValuesIn(RowsNow, ret.variable) = <<10, 20, 30>>
    /\ ret.out.count = 3

\* the rows a query with ret's spatial_id is about
QueriedRows ==
    IF ret.spatial_id # None /\ InHeader("RCH")
    THEN RowsOfReach(ret.spatial_id[1]) ELSE RowsNow

\* C19: whenever get_time_series returns data, its columns are exactly those
\* of DAY, MON, YEAR that the data set has (DAY whenever there is a DAY column)
\* and the requested variable, with no other column such as the spatial ID
\* column, and its rows are the (filtered) rows of the data set in file order.
C19_TimeSeriesColumns ==
    (ret.op = "get_time_series" /\ ret.out # None) =>
        LET df == ret.out[1]
            cols == {df.columns[c] : c \in 1..Len(df.columns)}
        IN /\ ret.output_type = "reach"
           /\ cols = {n \in {"DAY", "MON", "YEAR"} : InHeader(n)} \cup {ret.variable}
           /\ Cardinality(cols) = Len(df.columns)
           /\ "RCH" \notin cols
           /\ Len(df.rows) = Len(QueriedRows)
           /\ \A r \in 1..Len(df.rows) :
                 /\ DOMAIN df.rows[r] = 1..Len(df.columns)
                 /\ \A c \in 1..Len(df.columns) :
                       df.rows[r][c] = ValuesIn(QueriedRows, df.columns[c])[r]

\* a daily series of one reach out of a table that has rows of another
C19_Witness ==
    /\ ret.op = "get_time_series"
    /\ ret.out # None
    /\ ret.spatial_id # None
    /\ InHeader("DAY")
    /\ InHeader("RCH")
    /\ Len(ret.out[1].rows) < Len(RowsNow)
    /\ Len(ret.out[1].columns) = 2

\* C17: on a data set that resolves, calculate_water_balance has a component
\* exactly when at least one of its alias columns exists, and its value is the
\* sum of the first alias, in declared priority order, that is a column; a
\* component without an alias column is absent, not zero.
C17_FirstAliasSummed ==
    (/\ ret.op = "calculate_water_balance"
     /\ DataResolved(current_project[1], ret.output_type)) =>
        /\ "precipitation" \in DOMAIN ret.out <=> (InHeader("PRECIP") \/ InHeader("PRECIPmm"))
        /\ InHeader("PRECIP") =>
              ret.out["precipitation"] = SeqSum(ValuesIn(RowsNow, "PRECIP"))
        /\ (~InHeader("PRECIP") /\ InHeader("PRECIPmm")) =>
              ret.out["precipitation"] = SeqSum(ValuesIn(RowsNow, "PRECIPmm"))
        /\ "evapotranspiration" \in DOMAIN ret.out <=> InHeader("ET")
        /\ InHeader("ET") =>
              ret.out["evapotranspiration"] = SeqSum(ValuesIn(RowsNow, "ET"))
        /\ DOMAIN ret.out \cap {"surface_runoff", "lateral_flow", "groundwater",
                                "percolation", "error"} = {}

\* a balance over a table with both precipitation columns and no ET column
C17_Witness ==
    /\ ret.op = "calculate_water_balance"
    /\ InHeader("PRECIP")
    /\ InHeader("PRECIPmm")
    /\ ~InHeader("ET")
    /\ RowsNow # <<>>
    /\ DOMAIN ret.out = {"precipitation"}

\* the six component names of a water balance
BalanceComponents ==
    {"precipitation", "surface_runoff", "lateral_flow", "groundwater",
     "evapotranspiration", "percolation"}

\* C18 as stated: every key of calculate_water_balance's result is one of the
\* six component names and every value is a number, also when no data set is
\* available.
C18_OnlyComponentKeys ==
    ret.op = "calculate_water_balance" =>
        /\ DOMAIN ret.out \subseteq BalanceComponents
        /\ \A k \in DOMAIN ret.out : ret.out[k] \in Int

\* C18: when a data set is available every key of calculate_water_balance's
\* result is one of the six component names and every value is a number; when
\* no data set is available the result is the single entry error with the
\* message 'No output data available'.
C18_ComponentKeysOrError ==
    ret.op = "calculate_water_balance" =>
        IF DataResolved(current_project[1], ret.output_type)
        THEN /\ DOMAIN ret.out \subseteq BalanceComponents
             /\ \A k \in DOMAIN ret.out : ret.out[k] \in Int
        ELSE /\ DOMAIN ret.out = {"error"}
             /\ ret.out.error = "No output data available"

\* a balance asked of a project whose output file has been deleted
C18_Witness ==
    /\ ret.op = "calculate_water_balance"
    /\ ret.output_type = "reach"
    /\ get_file(current_project[1], "output_rch") # <<>>
    /\ ~exists(fs, AbsPath(OutputPath))
    /\ DOMAIN ret.out = {"error"}

\* what path p takes on disk now: nothing when it is gone
OnDiskBytes(p) ==
    LET s == Stat(fs, p)
    IN IF ~s.ok THEN 0
       ELSE IF fs[s.at] = "dir" THEN BlockSize["dir"]
       ELSE StSize[s.at[Len(s.at)]]

\* the classified files of a project, as (type, position) pairs
Classified(project) ==
    UNION {{<<t, i>> : i \in 1..Len(project.files[t])} : t \in DOMAIN project.files}

RECURSIVE BytesOf(_, _)
BytesOf(project, entries) ==
    IF entries = {} THEN 0
    ELSE LET e == CHOOSE x \in entries : TRUE
         IN OnDiskBytes(project.files[e[1]][e[2]].path)
            + BytesOf(project, entries \ {e})

\* C20: get_project_summary returns a summary for a loaded project whatever
\* has happened to its directory since the load: a classified file that is
\* gone counts 0 bytes, a control file that is gone or cannot be read only
\* leaves control_params out, and file_counts gives for each type with a
\* non-empty bucket the length of that bucket.
C20_SummaryAfterChanges ==
    ret.op = "get_project_summary" =>
        LET p == current_project[1]
        IN /\ ret.out.size_mb = RoundMB(BytesOf(p, Classified(p)))
           /\ (\/ "control" \notin DOMAIN p.files
               \/ p.files["control"] = <<>>
               \/ ~is_file(fs, p.files["control"][1].path)) =>
                 ret.out.control_params = <<>>
           /\ DOMAIN ret.out.file_counts = {t \in DOMAIN p.files : p.files[t] # <<>>}
           /\ \A t \in DOMAIN ret.out.file_counts :
                 ret.out.file_counts[t] = Len(p.files[t])
           /\ ret.out.name = p.name

\* a summary of a project whose control file has been deleted since the load
C20_Witness ==
    /\ ret.op = "get_project_summary"
    /\ "control" \in DOMAIN current_project[1].files
    /\ ~exists(fs, current_project[1].files["control"][1].path)
    /\ ret.out.control_params = <<>>
    /\ ret.out.file_counts["control"] = 1

\* C21: find_swat_projects(root, max_depth) returns an empty list, and no
\* error, whenever root does not exist or is not a directory.
C21_NoDirectoryNoProjects ==
    (ret.op = "find_swat_projects" /\ ~is_dir(fs, ret.path)) => ret.out = <<>>

\* a search from a regular file that lies within max_depth
C21_Witness ==
    /\ ret.op = "find_swat_projects"
    /\ is_file(fs, ret.path)
    /\ ret.max_depth >= 0
    /\ ret.out = <<>>

\* the position in a type's pattern list of the pattern a name matches
PatternIndex(name, t) ==
    CHOOSE k \in 1..Len(PatternsOf(t)) : fnmatch(name, PatternsOf(t)[k])

\* C25: within each bucket of scan_project_files the files of one pattern are
\* in ascending file-name order and the patterns' contributions are in the
\* declared pattern order, whatever order the directory is enumerated in.
C25_BucketsSorted ==
    ret.op = "scan_project_files" =>
        \A t \in DOMAIN ret.out :
            \A i \in 1..Len(ret.out[t]) : \A j \in 1..Len(ret.out[t]) :
                i < j =>
                    LET a == PathName(ret.out[t][i].path)
                        b == PathName(ret.out[t][j].path)
                    IN \/ PatternIndex(a, t) < PatternIndex(b, t)
                       \/ /\ PatternIndex(a, t) = PatternIndex(b, t)
                          /\ NameRank[a] < NameRank[b]

\* the paths below root, root included: root's spelling followed by the names
\* that lead from it to an entry of the tree
Below(root) ==
    LET s == Stat(fs, root)
    IN IF ~s.ok THEN {}
       ELSE {[abs |-> root.abs,
              parts |-> root.parts \o SubSeq(q, Len(s.at) + 1, Len(q))] :
                q \in {r \in DOMAIN fs : /\ Len(r) >= Len(s.at)
                                         /\ SubSeq(r, 1, Len(s.at)) = s.at}}

\* the proper ancestors of d on the way down from root, root included
AncestorsFrom(root, d) ==
    {[abs |-> root.abs, parts |-> SubSeq(d.parts, 1, k)] :
        k \in Len(root.parts)..(Len(d.parts) - 1)}

\* C26: find_swat_projects(root, max_depth) returns, each once, exactly the
\* directories D that are root or lie at most max_depth levels below it, are
\* project roots, and have no project root among their proper ancestors from
\* root down; it never descends into a project.
C26_FindExactly ==
    ret.op = "find_swat_projects" =>
        /\ {ret.out[i] : i \in 1..Len(ret.out)} =
              {d \in Below(ret.path) :
                  /\ Len(d.parts) - Len(ret.path.parts) <= ret.max_depth
                  /\ is_dir(fs, d)
                  /\ HasControlFile(d) \/ HasMasterWatershed(d)
                  /\ \A a \in AncestorsFrom(ret.path, d) :
                        ~(HasControlFile(a) \/ HasMasterWatershed(a))}
        /\ \A i \in 1..Len(ret.out) : \A j \in 1..Len(ret.out) :
              ret.out[i] = ret.out[j] => i = j

\* a search that returned one directory below root and passed over its
\* sibling, a directory that is no project
C26_Witness ==
    /\ ret.op = "find_swat_projects"
    /\ Len(ret.out) = 1
    /\ IsProperDescendant(ret.out[1], ret.path)
    /\ \E n \in Names :
          /\ is_dir(fs, Child(ret.path, n))
          /\ Child(ret.path, n) # ret.out[1]
          /\ ~HasControlFile(Child(ret.path, n))

\* the first position at which two sequences of names differ
FirstDifference(a, b) ==
    CHOOSE k \in 1..Len(a) :
        /\ k <= Len(b)
        /\ a[k] # b[k]
        /\ \A h \in 1..(k - 1) : a[h] = b[h]

\* C24: the list find_swat_projects returns is the depth-first pre-order of
\* the found project roots with siblings in ascending name order, whatever
\* order the file system enumerates directory entries in.
C24_SortedSiblingOrder ==
    ret.op = "find_swat_projects" =>
        \A i \in 1..Len(ret.out) : \A j \in 1..Len(ret.out) :
            i < j =>
                LET a == ret.out[i].parts
                    b == ret.out[j].parts
                IN NameRank[a[FirstDifference(a, b)]] < NameRank[b[FirstDifference(a, b)]]

\* C27: the manager's current_project changes only in a successful
\* load_project, which makes the loaded project current; a load_project that
\* raises leaves the previous project current, and find_projects,
\* validate_project and get_project_info never change it.
C27_OnlySuccessfulLoadSetsCurrent ==
    [][/\ current_project' # current_project =>
            /\ ret'.op = "load_project"
            /\ ret'.out.status = "ok"
            /\ current_project' = <<ret'.out.val>>
       /\ (ret = NoRet /\ ret'.op = "load_project" /\ ret'.out.status # "ok") =>
            current_project' = current_project
       /\ (ret = NoRet /\ ret'.op \in {"find_projects", "validate_project",
                                       "get_project_info"}) =>
            current_project' = current_project]_vars

\* a load that raised while an earlier project was loaded, which is still current
C27_Witness ==
    /\ ret.op = "load_project"
    /\ ret.out.status = "ValueError"
    /\ ret.prev # NoProject
    /\ current_project = ret.prev

\* C28: validate_project(path) reports is_valid true with no errors exactly
\* when load_project(path) succeeds on the same file system; a failed
\* validation reports exactly one error and load_project raises.
C28_ValidateAgreesWithLoad ==
    ret.op = "validate_project" =>
        \A o \in DirOrders :
            /\ (ret.out.is_valid /\ ret.out.errors = <<>>)
                  <=> load_project(fs, ret.path, o).status = "ok"
            /\ ~ret.out.is_valid =>
                  /\ Len(ret.out.errors) = 1
                  /\ load_project(fs, ret.path, o).status # "ok"

\* a directory that is a project by its master watershed file alone, validated
C28_Witness ==
    /\ ret.op = "validate_project"
    /\ ret.out.is_valid
    /\ HasMasterWatershed(ret.path)
    /\ ~HasControlFile(ret.path)
    /\ \A o \in DirOrders : load_project(fs, ret.path, o).status = "ok"

\* the output file was filed when the current project was loaded
FiledAtLoad ==
    /\ current_project # NoProject
    /\ FilesGet(current_project[1].files, "output_rch") # <<>>

\* what an analysis call answers when it has no data for the variable
NoDataAnswer ==
    CASE ret.op = "get_variable_statistics" ->
             ret.out = [error |-> "Variable " \o ret.variable \o " not found"]
      [] ret.op = "get_time_series" -> ret.out = None
      [] ret.op = "calculate_water_balance" ->
             ret.out = [error |-> "No output data available"]
      [] OTHER -> TRUE

\* C29: a loaded project's file buckets are a snapshot of load time and files
\* are opened at query time.  After an output file filed at load is deleted,
\* has_outputs() is still true while get_variable_statistics returns an error
\* value, get_time_series None and calculate_water_balance an error value; an
\* output file created after the load is not seen by any of them until the
\* project is loaded again.
C29_SnapshotAtLoad ==
    /\ (FiledAtLoad /\ OutputPath \notin DOMAIN fs) =>
          /\ has_outputs(current_project[1])
          /\ ret.op = "has_outputs" => ret.out
          /\ NoDataAnswer
    /\ (current_project # NoProject /\ ~FiledAtLoad /\ is_file(fs, AbsPath(OutputPath))) =>
          /\ ret.op = "has_outputs" => ~ret.out
          /\ NoDataAnswer

\* a water balance asked of a project loaded without an output file, after a
\* file with balance columns was created
C29_Witness ==
    /\ current_project # NoProject
    /\ ~FiledAtLoad
    /\ is_file(fs, AbsPath(OutputPath))
    /\ Len(outdata.lines) = 2
    /\ ret.op = "calculate_water_balance"
    /\ ret.output_type = "reach"
    /\ ret.out = [error |-> "No output data available"]

\* C30: in a server session every tool but find_swat_projects and
\* load_swat_project, called before any successful load, answers with the
\* "Error: No project loaded" text and nothing else; call_tool returns a
\* content for every tool name and arguments, never an exception; and once a
\* load has succeeded the current project is never None again.
C30_ToolsGatedUntilLoad ==
    /\ [](ret.op = "call_tool" =>
            /\ ret.out.kind \in {"error", "text", "image"}
            /\ (ret.prev = NoProject /\ ret.name \in ProjectTools) =>
                  ret.out = ErrorContent(NoProjectLoaded))
    /\ [][current_project # NoProject => current_project' # NoProject]_vars

\* a load that failed after an earlier one had succeeded, the project still
\* being current
C30_Witness ==
    /\ ret.op = "call_tool"
    /\ ret.name = "load_swat_project"
    /\ ret.out.kind = "error"
    /\ ret.prev # NoProject
    /\ current_project = ret.prev

\* the *.sub regular files directly in the working directory, by name
SubFilesByName ==
    Listing({n \in EntryNames(fs, AbsPath(Cwd)) :
                /\ fnmatch(n, "*.sub")
                /\ is_file(fs, AbsPath(Append(Cwd, n)))}, NameRank)

\* C22: read_sub returns TablesOut/sub.txt parsed with the columns SUB and
\* AREA_KM2 when that file exists under the root, the *.sub names not being
\* consulted; otherwise one row per *.sub file whose stem starts with an
\* integer, SUB being that integer and AREA_KM2 null, in sorted file-name
\* order, the other *.sub files being skipped.
C22_SubTableOrSubFiles ==
    (ret.op = "read_sub" /\ exists(fs, ret.path)) =>
        IF exists(fs, AbsPath(<<"w", "TablesOut", "sub.txt">>))
        THEN ret.out = Ok(read_space_table(text, 2))
        ELSE LET named == SelectSeq(SubFilesByName,
                                    LAMBDA n : IsInt(FirstField(Stem(n))))
             IN ret.out = Ok(RecordsFrame(
                    [i \in 1..Len(named) |->
                        <<NumberCell(int(FirstField(Stem(named[i])))), NullCell>>]))

\* ret is the call the caller kept the result of, made again
SameCallAgain ==
    /\ tab # NoTab
    /\ ret.op = tab[1].call.op
    /\ [ret EXCEPT !.out = 0] = [tab[1].call EXCEPT !.out = 0]

\* C23: reads keep no state.  A read, or an analysis call on the loaded
\* project, made again with the same parameters while the file is unchanged
\* returns an equal result, and a result is computed from what the file holds
\* when the call is made, whatever an earlier call has read.
C23_ReadsAreStateless ==
    /\ (SameCallAgain /\ tab[1].read = outdata) => ret.out = tab[1].call.out
    /\ ret.op = "OutputReader.read" =>
          /\ ret.out.status = "ok"
          /\ ret.out.val.data = DataFrame(HeaderNow, RowsNow)
    /\ (ret.op = "get_variable_statistics" /\ ret.output_type = "reach") =>
          ret.out = IF InHeader(ret.variable)
                    THEN Statistics(ret.variable, ValuesIn(RowsNow, ret.variable))
                    ELSE [error |-> "Variable " \o ret.variable \o " not found"]

\* a read made again after the file was written over, whose result differs
\* from the one the caller kept
C23_Witness ==
    /\ SameCallAgain
    /\ ret.op = "OutputReader.read"
    /\ tab[1].read # outdata
    /\ ret.out # tab[1].call.out
    /\ ret.out.val.data.rows = RowsNow
    /\ RowsNow # <<>>

====
